---- MODULE Spec2Model ----
(***************************************************************************)
(* Model of the Notion inbox agent.                                        *)
(*                                                                         *)
(* Spec      : the orchestrator of run.py (process_notes, process_note)    *)
(*             on top of MetadataProcessor.process of metadata.py.         *)
(* SpecCache : the cached read facade of notion.py (query_pages_filtered,  *)
(*             get_inner_page_blocks).                                     *)
(* SpecStages: the stage operations called on their own                    *)
(*             (RankingProcessor.process, EnrichmentProcessor.process,     *)
(*             determine_ai_use_status, _create_do_now_task).              *)
(* SpecUtils : the chat helpers of utils.py, one call per behaviour.       *)
(* SpecTask  : TaskManager.create_task under each runtime mode.            *)
(* SpecBatched: MetadataProcessor._classify_notes_batched on its own, for  *)
(*             every note list and batch size within the bounds.           *)
(*                                                                         *)
(* Python objects are records whose DOMAIN is the set of their fields, so  *)
(* that reading an attribute a class does not declare is visible.          *)
(***************************************************************************)
EXTENDS Integers, Sequences, FiniteSets, TLC

\* ------------------------------------------------------------------ bounds
\* Largest number of notes handed to one run.
MaxNotes == 2

\* MetadataConfig.top_n_projects (its default).
top_n_projects == 3

\* MetadataConfig.batch_size as the metadata test fixture configures it, so
\* that a run of more than two notes takes several batches.
batch_size == 2

\* Largest number of facade read calls in one process run.
MaxCalls == 3

\* Largest number of pages the block children of one page span.
MaxPages == 2

\* MetadataConfig.project_confidence_threshold (its default 0.85), in
\* hundredths.
project_confidence_threshold == 85

\* The lengths of the project and score lists of a model answer: empty,
\* exactly top_n_projects, and one more (so that the truncation acts).
ListLengths == {0, top_n_projects, top_n_projects + 1}

None == "None"

\* ------------------------------------------------------- pydantic_models.py
ActionType == {"DO_NOW", "REFINE", "EXECUTE"}

\* The fields class NoteClassification declares.
NoteClassificationFields ==
    {"note_id", "projects", "action", "reasoning", "confidence_scores"}

\* Python's seq[:n].
Take(s, n) == SubSeq(s, 1, IF Len(s) < n THEN Len(s) ELSE n)

\* The ranked project titles and scores (in hundredths) a model answer lists.
ProjectTitles == <<"P1", "P2", "P3", "P4">>
ProjectAt(j) == ProjectTitles[j]
ScoreAt(j) == CASE j = 1 -> 95 [] j = 2 -> 65 [] OTHER -> 30
ProjectList(k) == [j \in 1..k |-> ProjectAt(j)]
ScoreList(k) == [j \in 1..k |-> ScoreAt(j)]

\* One entry of the "classifications" list of a model answer for the batch of
\* the notes first..last: note_id is <<>> when the key is absent and <<n>>
\* when present (one of the ids the prompt shows, in any order); BadItem is
\* an entry that lacks a required key or names an action outside ActionType.
BadItem == [bad |-> TRUE]
RawItems(first, last) ==
    {BadItem} \cup
    [bad : {FALSE},
     note_id : {<<>>} \cup {<<i>> : i \in first..last},
     projects : {ProjectList(k) : k \in ListLengths},
     action : ActionType,
     confidence_scores : {ScoreList(k) : k \in ListLengths}]

\* metadata.py:165-171, the NoteClassification built from one entry.
ParseItem(item) ==
    [note_id |-> IF item.note_id = <<>> THEN 0 ELSE item.note_id[1],
     projects |-> Take(item.projects, top_n_projects),
     action |-> item.action,
     reasoning |-> "llm",
     confidence_scores |-> Take(item.confidence_scores, top_n_projects)]

\* The placeholder of the padding loop that follows the raise (dead code).
Placeholder(idx) ==
    [note_id |-> idx, projects |-> <<"Inbox">>, action |-> "REFINE",
     reasoning |-> "Fallback", confidence_scores |-> <<50>>]

RECURSIVE Pad(_, _, _)
Pad(results, n, first) ==
    IF Len(results) >= n THEN results
    ELSE Pad(Append(results, Placeholder(first + Len(results))), n, first)

\* A variant of the count check that pads and returns instead of raising.
ClassifyBatchFinishPadding(results, n, first) ==
    [raised |-> FALSE, value |-> Pad(results, n, first)]

\* metadata.py:173-189, the count check that ends _classify_batch.
ClassifyBatchFinish(results, n, first) ==
    IF Len(results) # n
    THEN [raised |-> TRUE, value |-> <<>>]
    ELSE [raised |-> FALSE, value |-> results]

\* metadata.py:264-266
IsDoNow(classification) == classification.action = "DO_NOW"

\* notion.py:49, the parameters query_pages_filtered accepts.
QueryPagesFilteredParams == {"client", "data_source_id", "filter_dict"}

\* metadata.py:210-215, the keyword the fetch passes.  The call binds only
\* when the callee accepts the keyword; otherwise Python raises TypeError,
\* inside the try of metadata.py:208.
FetchCallKeywords == {"filter_properties"}
FetchCallBinds == FetchCallKeywords \subseteq QueryPagesFilteredParams

\* What the query of metadata.py:211-215 can answer: an exception, or the
\* project pages of the store (their titles).
QueryAnswers ==
    IF FetchCallBinds
    THEN {[raised |-> TRUE, exc |-> "StoreError", titles |-> {}]} \cup
         {[raised |-> FALSE, exc |-> None, titles |-> t] :
             t \in SUBSET {ProjectTitles[j] : j \in 1..Len(ProjectTitles)}}
    ELSE {[raised |-> TRUE, exc |-> "TypeError", titles |-> {}]}

\* A variant of the handler of metadata.py:217-219 that re-raises.
OnFetchFailureRaise == "raise"

\* metadata.py:217-219: on any exception of the query, return the empty dict.
OnFetchFailure == "return_empty"

\* ---------------------------------------------------------------- notion.py
\* The data sources, filters and pages the facade is asked about.  A filter
\* is None, the empty dict or a non-empty dict, written as str() prints it.
DataSourceIds == {"ds-111", "ds-222"}
Filters == {"None", "{}", "{'property': 'Name'}"}
PageIds == {"page-1", "page-2"}

\* Python truthiness of filter_dict: None and the empty dict are falsy.
Falsy(filter_dict) == filter_dict \in {"None", "{}"}

\* notion.py:8-14, _get_cache_key: the function name and the sorted
\* (name, str(value)) pairs of the keyword arguments.
GetCacheKey(function_name, sorted_params) ==
    [fn |-> function_name, params |-> sorted_params]

\* A variant of the key of query_pages_filtered that leaves the filter out.
QueryCacheKeyNoFilter(data_source_id, filter_dict) ==
    GetCacheKey("query_pages_filtered",
                <<<<"data_source_id", data_source_id>>>>)

\* notion.py:64-65, the key of query_pages_filtered.
QueryCacheKey(data_source_id, filter_dict) ==
    GetCacheKey("query_pages_filtered",
                <<<<"data_source_id", data_source_id>>,
                  <<"filter", IF Falsy(filter_dict) THEN "no_filter"
                              ELSE filter_dict>>>>)

\* notion.py:21, the key of get_inner_page_blocks.
BlocksCacheKey(page_id) ==
    GetCacheKey("get_inner_page_blocks", <<<<"page_id", page_id>>>>)

\* notion.py:75-83, the transport request of query_pages_filtered: the filter
\* is passed only when it is truthy.  The store answers a request with the
\* pages that match it.
QueryRequest(data_source_id, filter_dict) ==
    IF Falsy(filter_dict)
    THEN [data_source_id |-> data_source_id, filter |-> "absent"]
    ELSE [data_source_id |-> data_source_id, filter |-> filter_dict]
StoreQuery(request) == <<[object |-> "page", matches |-> request]>>

\* The store's block children: page-1 spans one page of results, page-2 spans
\* MaxPages; result page j holds j blocks, numbered in server order.
PagesOf(page_id) == IF page_id = "page-1" THEN 1 ELSE MaxPages
FirstBlockOf(j) == ((j - 1) * j) \div 2 + 1
StoreBlocksPage(page_id, j) ==
    [results |-> [n \in 1..j |->
                     [block |-> FirstBlockOf(j) + n - 1, of |-> page_id]],
     has_more |-> j < PagesOf(page_id),
     next_cursor |-> IF j < PagesOf(page_id) THEN <<j + 1>> ELSE <<>>]

\* The store resolves a cursor (<<>> is None) to the result page it names.
PageOfCursor(cursor) == IF cursor = <<>> THEN 1 ELSE cursor[1]

RECURSIVE AllBlocks(_, _)
AllBlocks(page_id, j) ==
    IF j = 0 THEN <<>>
    ELSE AllBlocks(page_id, j - 1) \o StoreBlocksPage(page_id, j).results

\* notion.py:36
page_size == 100

\* notion.py:33-37, the request of one loop iteration.
BlocksRequest(page_id, cursor) ==
    [block_id |-> page_id, start_cursor |-> cursor, page_size |-> page_size]

\* A variant of line 38 that keeps only the latest response's results.
ExtendBlocksReplace(acc, response) == response.results

\* notion.py:38, blocks.extend(response['results']).
ExtendBlocks(acc, response) == acc \o response.results

\* A dict with key k set to v.
Put(d, k, v) == [x \in DOMAIN d \cup {k} |-> IF x = k THEN v ELSE d[x]]
EmptyDict == [x \in {} |-> <<>>]

\* The cache after a transport call raised, were the blocks gathered so
\* far stored under the key.
OnTransportErrorStorePartial(cache, key, partial) == Put(cache, key, partial)

\* notion.py:33-44 and 76-86: an exception of the transport call leaves the
\* function before the assignment to _notion_cache; the cache is as it was.
OnTransportError(cache, key, partial) == cache

\* The facade calls a caller can make.
QueryCalls == [op : {"query_pages_filtered"}, id : DataSourceIds, filter : Filters]
BlockCalls == [op : {"get_inner_page_blocks"}, id : PageIds, filter : {"n/a"}]
FacadeCalls == QueryCalls \cup BlockCalls
KeyOf(call) == IF call.op = "query_pages_filtered"
               THEN QueryCacheKey(call.id, call.filter)
               ELSE BlocksCacheKey(call.id)
CacheKeys == {KeyOf(c) : c \in FacadeCalls}

\* --------------------------------------------------------------- ranking.py
\* Scores are integers; confidences are in hundredths (0.9 is 90).
Notes == {"note-a", "note-b"}

\* The fields class RankingResult and class BrainstormResult declare; all
\* are required (pydantic_models.py:142-157).
RankingResultFields ==
    {"title", "importance", "urgency", "impact", "confidence", "reasoning"}
BrainstormResultFields ==
    {"assumptions", "potential_impact", "related_topics", "judgement"}

\* What a completion call gives a stage: the transport raises, the text does
\* not parse as JSON, or it parses to a dict `data`.
TransportError == [kind |-> "transport_error"]
Unparseable == [kind |-> "unparseable"]
Parsed(data) == [kind |-> "parsed", data |-> data]

\* The dicts the executor model may answer with: the four keys the prompt
\* shows, or the same without "judgement".
BrainstormValue(k) ==
    CASE k = "assumptions" -> <<"a1", "a2">>
      [] k = "potential_impact" -> "some impact"
      [] k = "related_topics" -> <<"t1">>
      [] OTHER -> "high"
BrainstormAnswers ==
    {TransportError, Unparseable}
    \cup {Parsed([k \in ks |-> BrainstormValue(k)]) :
            ks \in {BrainstormResultFields,
                    BrainstormResultFields \ {"judgement"}}}

\* ranking.py:92-97, the default of the brainstorm step.
BrainstormDefault ==
    [assumptions |-> <<>>, potential_impact |-> "Unknown",
     related_topics |-> <<>>, judgement |-> "medium"]

\* pydantic: BrainstormResult(**data) needs every declared field and drops
\* the others.
BrainstormResultOf(data) ==
    IF BrainstormResultFields \subseteq DOMAIN data
    THEN [error |-> None,
          value |-> <<[k \in BrainstormResultFields |-> data[k]]>>]
    ELSE [error |-> "ValidationError", value |-> <<>>]

\* ranking.py:74-97.  `failed` says the except branch ran.
Brainstorm(note, answer) ==
    IF answer.kind = "parsed" /\ BrainstormResultOf(answer.data).error = None
    THEN [failed |-> FALSE, result |-> BrainstormResultOf(answer.data).value[1]]
    ELSE [failed |-> TRUE, result |-> BrainstormDefault]

\* The scores a judge answer may carry: in range, on the edges of the
\* ranges, and outside them.
ImportanceValues == {0, 1, 4, 5}
UrgencyValues == {1, 5}
ImpactValues == {-1, 0, 14, 15, 100, 101}
ConfidenceValues == {-10, 0, 50, 89, 90, 100, 150}

\* The key sets of a judge answer: with a title, as the prompt of
\* ranking.py:142-149 shows it (no title), and without confidence.
JudgeKeySets ==
    {RankingResultFields, RankingResultFields \ {"title"},
     RankingResultFields \ {"confidence"}}
JudgeData(ks, imp, urg, impact, conf) ==
    [k \in ks |->
        CASE k = "title" -> <<"title">>
          [] k = "reasoning" -> <<"reasoning">>
          [] k = "importance" -> <<imp>>
          [] k = "urgency" -> <<urg>>
          [] k = "impact" -> <<impact>>
          [] OTHER -> <<conf>>]
JudgeAnswers ==
    {TransportError, Unparseable}
    \cup {Parsed(JudgeData(ks, imp, urg, impact, conf)) :
            ks \in JudgeKeySets, imp \in ImportanceValues,
            urg \in UrgencyValues, impact \in ImpactValues,
            conf \in ConfidenceValues}

\* pydantic: RankingResult(**data) needs every declared field; the fields
\* carry no range constraint, so the values are taken as they are.
RankingResultOf(data) ==
    IF RankingResultFields \subseteq DOMAIN data
    THEN [error |-> None,
          value |-> <<[k \in RankingResultFields |-> data[k][1]]>>]
    ELSE [error |-> "ValidationError", value |-> <<>>]

\* ranking.py:169-175, the keyword arguments of the default of the judge step.
JudgeDefaultData ==
    [importance |-> <<2>>, urgency |-> <<1>>, impact |-> <<20>>,
     confidence |-> <<50>>, reasoning |-> <<"defaults">>]

\* ranking.py:151-175.  The except branch builds RankingResult from the
\* default keyword arguments; an exception raised there leaves _judge_rank.
JudgeRank(note, brainstorm, answer) ==
    IF answer.kind = "parsed" /\ RankingResultOf(answer.data).error = None
    THEN [failed |-> FALSE, error |-> None,
          result |-> RankingResultOf(answer.data).value]
    ELSE [failed |-> TRUE,
          error |-> RankingResultOf(JudgeDefaultData).error,
          result |-> RankingResultOf(JudgeDefaultData).value]

\* ranking.py:24-49, RankingProcessor.process: one executor call, then one
\* judge call.  `result` is <<>> when the call raised.
RankingProcess(note, b_answer, j_answer) ==
    LET b == Brainstorm(note, b_answer)
        j == JudgeRank(note, b.result, j_answer)
    IN [brainstorm_failed |-> b.failed,
        brainstorm |-> b.result,
        executor_calls |-> 1,
        judge_calls |-> 1,
        judge_failed |-> j.failed,
        error |-> j.error,
        result |-> j.result]

\* ------------------------------------------------------------ enrichment.py
\* EnrichmentConfig.impact_threshold (its default).
impact_threshold == 15

\* The impact scores a caller hands EnrichmentProcessor.process.
ImpactInputs == {0, impact_threshold - 1, impact_threshold,
                 impact_threshold + 1, 100}

\* The fields class EnrichmentResult declares.
EnrichmentResultFields == {"lenses_used", "enriched_text"}

\* enrichment.py:11-16, the keys of EnrichmentProcessor.LENSES.
LENSES == {"A", "B", "C", "D"}

\* The lists of strings the model may put under "lenses_used": two of the
\* lenses as the prompt asks, and lists it is not asked for (one lens, a
\* lens twice, three lenses, a name that is no lens, none).
LensLists ==
    {<<"A", "C">>, <<"D", "B">>, <<"A">>, <<"A", "A">>, <<"A", "B", "C">>,
     <<"A", "X">>, <<>>}

\* What call_llm_with_json_response gives _enrich_note: it raises (the
\* transport failed, or no JSON could be extracted), or it returns a dict
\* with both keys or without "enriched_text".
EnrichmentValue(k) ==
    IF k = "lenses_used" THEN <<"A", "C">> ELSE "bluf"
EnrichmentAnswers ==
    {TransportError, Unparseable}
    \cup {Parsed([k \in ks |-> EnrichmentValue(k)]) :
            ks \in {EnrichmentResultFields, {"lenses_used"}}}
    \cup {Parsed([lenses_used |-> lenses,
                  enriched_text |-> EnrichmentValue("enriched_text")]) :
            lenses \in LensLists}

\* enrichment.py:90-93, the result of a failed enrichment.
EnrichmentFailed == [lenses_used |-> <<>>, enriched_text |-> ""]

\* enrichment.py:72-93: one model call; any exception gives the empty result.
EnrichNote(note, answer) ==
    IF answer.kind = "parsed"
       /\ EnrichmentResultFields \subseteq DOMAIN answer.data
    THEN [k \in EnrichmentResultFields |-> answer.data[k]]
    ELSE EnrichmentFailed

\* enrichment.py:32, the gate.
SkipsEnrichment(impact_score) == impact_score < impact_threshold

\* enrichment.py:21-42, EnrichmentProcessor.process.  `result` is <<>> for
\* the skip value None and <<r>> for an EnrichmentResult.
EnrichmentProcess(note, impact_score, answer) ==
    IF SkipsEnrichment(impact_score)
    THEN [result |-> <<>>, llm_calls |-> 0]
    ELSE [result |-> <<EnrichNote(note, answer)>>, llm_calls |-> 1]

\* ------------------------------------------------------------------ task.py
\* TaskConfig.confidence_threshold (its default 0.9), in hundredths.
confidence_threshold == 90

\* task.py:211-216.
DetermineAIUseStatus(confidence) ==
    IF confidence < confidence_threshold THEN "ambiguous" ELSE "processed"

\* ----------------------------------------------------------------- utils.py
\* Longest response text, in tokens.
MaxText == 6

\* A response text is a sequence of tokens: the fence (three backquotes), the tag json, a
\* newline (the whitespace of the model), two different complete JSON
\* documents, and a word of prose.
Fence == "fence"
JsonTag == "json"
Newline == "\n"
JsonDocs == {"{a}", "{b}"}
Prose == "prose"
Tokens == {Fence, JsonTag, Newline, Prose} \cup JsonDocs
Texts == UNION {[1..n -> Tokens] : n \in 0..MaxText}

\* str.strip(): drop the whitespace at both ends.
RECURSIVE LStrip(_)
LStrip(t) ==
    IF t # <<>> /\ Head(t) = Newline THEN LStrip(Tail(t)) ELSE t
RECURSIVE RStrip(_)
RStrip(t) ==
    IF t # <<>> /\ t[Len(t)] = Newline
    THEN RStrip(SubSeq(t, 1, Len(t) - 1)) ELSE t
Strip(t) == RStrip(LStrip(t))

\* json.loads(t): whitespace around one document is allowed; anything else
\* raises JSONDecodeError.  `value` is <<>> when it raised.
JsonLoads(t) ==
    IF Len(Strip(t)) = 1 /\ Strip(t)[1] \in JsonDocs
    THEN [raised |-> FALSE, value |-> <<Strip(t)[1]>>]
    ELSE [raised |-> TRUE, value |-> <<>>]

\* utils.py:112-117, the four patterns: with or without the json tag after
\* the opening fence, and with the fences on lines of their own
\* (\s*\n(.*?)\n before the closing fence) or not (\s*(.*?)).
TaggedMultiline == [tagged |-> TRUE, multiline |-> TRUE]
UntaggedMultiline == [tagged |-> FALSE, multiline |-> TRUE]
TaggedSingle == [tagged |-> TRUE, multiline |-> FALSE]
UntaggedSingle == [tagged |-> FALSE, multiline |-> FALSE]

patterns ==
    <<TaggedMultiline, UntaggedMultiline, TaggedSingle, UntaggedSingle>>

\* The length of the whitespace run of t that starts at position p.
RECURSIVE WhitespaceRun(_, _)
WhitespaceRun(t, p) ==
    IF p <= Len(t) /\ t[p] = Newline THEN 1 + WhitespaceRun(t, p + 1) ELSE 0

Min(S) == CHOOSE x \in S : \A y \in S : x <= y
Max(S) == CHOOSE x \in S : \A y \in S : x >= y

\* Where a lazy group that starts at position c may end: before the first
\* closing fence (single line) or before the first newline a fence follows.
GroupEnds(pattern, t, c) ==
    IF pattern.multiline
    THEN {e \in c..(Len(t) - 1) : t[e] = Newline /\ t[e + 1] = Fence}
    ELSE {e \in c..Len(t) : t[e] = Fence}

\* The match of the pattern that starts at position i of t, as the
\* backtracking of re finds it: \s* takes the longest run that still lets
\* the rest match, (.*?) the shortest group.  <<>> when none starts at i,
\* else <<group 1>>.
MatchAt(pattern, t, i) ==
    IF ~(i <= Len(t) /\ t[i] = Fence
         /\ (pattern.tagged => (i + 1 <= Len(t) /\ t[i + 1] = JsonTag)))
    THEN <<>>
    ELSE LET p == IF pattern.tagged THEN i + 2 ELSE i + 1
             w == WhitespaceRun(t, p)
             \* the position the group starts at, per length k of \s*
             start(k) == IF pattern.multiline THEN p + k + 1 ELSE p + k
             ks == {k \in 0..(IF pattern.multiline THEN w - 1 ELSE w) :
                      GroupEnds(pattern, t, start(k)) # {}}
         IN IF ks = {} THEN <<>>
            ELSE LET c == start(Max(ks))
                 IN <<SubSeq(t, c, Min(GroupEnds(pattern, t, c)) - 1)>>

\* re.search(pattern, t, re.DOTALL): the leftmost match.
Search(pattern, t) ==
    LET starts == {i \in 1..Len(t) : MatchAt(pattern, t, i) # <<>>}
    IN IF starts = {} THEN <<>> ELSE MatchAt(pattern, t, Min(starts))

\* utils.py:119-127 for one pattern: a match whose stripped group parses.
TryPattern(pattern, t) ==
    IF Search(pattern, t) = <<>>
    THEN [raised |-> TRUE, value |-> <<>>]
    ELSE JsonLoads(Strip(Search(pattern, t)[1]))

\* The second part of t split on the fence: the tokens between the first two fences.
FenceAt(t) == {i \in 1..Len(t) : t[i] = Fence}
SecondPart(t) ==
    LET f1 == Min(FenceAt(t))
        f2 == Min(FenceAt(t) \ {f1})
    IN SubSeq(t, f1 + 1, f2 - 1)

\* utils.py:131-140, the fallback.
TrySplit(t) ==
    IF Cardinality(FenceAt(t)) < 2
    THEN [raised |-> TRUE, value |-> <<>>]
    ELSE IF SecondPart(t) # <<>> /\ Head(SecondPart(t)) = JsonTag
    THEN JsonLoads(Strip(Tail(SecondPart(t))))
    ELSE JsonLoads(SecondPart(t))

\* The loop without its `continue`: it gives up when the first pattern
\* does not give a document.
ExtractFromNoRetry(t, k) ==
    IF ~TryPattern(patterns[1], t).raised
    THEN [error |-> None, value |-> TryPattern(patterns[1], t).value,
          strategy |-> 2]
    ELSE [error |-> "ValueError", value |-> <<>>, strategy |-> 0]

\* utils.py:119-127, the loop over the patterns from the k-th on, then the
\* fallback and the final raise.  `strategy` numbers the step that
\* returned: 1 direct, 2..5 the patterns, 6 the fallback, 0 none.
RECURSIVE ExtractFrom(_, _)
ExtractFrom(t, k) ==
    IF k <= Len(patterns)
    THEN IF ~TryPattern(patterns[k], t).raised
         THEN [error |-> None, value |-> TryPattern(patterns[k], t).value,
               strategy |-> k + 1]
         ELSE ExtractFrom(t, k + 1)
    ELSE IF ~TrySplit(t).raised
    THEN [error |-> None, value |-> TrySplit(t).value, strategy |-> 6]
    ELSE [error |-> "ValueError", value |-> <<>>, strategy |-> 0]

\* utils.py:83-146, extract_json_from_response; response_content is <<>>
\* for None and <<t>> for the text t.
ExtractJsonFromResponse(response_content) ==
    IF response_content = <<>>
    THEN [error |-> "ValueError", value |-> <<>>, strategy |-> 0]
    ELSE IF ~JsonLoads(response_content[1]).raised
    THEN [error |-> None, value |-> JsonLoads(response_content[1]).value,
          strategy |-> 1]
    ELSE ExtractFrom(response_content[1], 1)

\* Longest message list handed to the chat helpers.
MaxMessages == 3

\* A message is a dict with a role and a content; a content is a text, a
\* sequence of tokens.  The message at position i says ContentAt(i) or
\* nothing.
Roles == {"system", "user", "assistant"}
ContentNames == <<"c1", "c2", "c3", "c4", "c5">>
ContentAt(i) == <<ContentNames[i]>>
MessageListsOf(empties) ==
    UNION {{[i \in 1..n |->
               [role |-> r[i],
                content |-> IF e[i] THEN <<>> ELSE ContentAt(i)]] :
              r \in [1..n -> Roles], e \in [1..n -> empties]} :
           n \in 0..MaxMessages}
MessageLists == MessageListsOf(BOOLEAN)
\* The lists without an empty content.
PlainMessageLists == MessageListsOf({FALSE})

IsSystem(msg) == msg.role = "system"
IsNotSystem(msg) == msg.role # "system"

\* "\n".join(texts).
RECURSIVE JoinLines(_)
JoinLines(texts) ==
    IF texts = <<>> THEN <<>>
    ELSE IF Len(texts) = 1 THEN texts[1]
    ELSE texts[1] \o <<Newline>> \o JoinLines(Tail(texts))

\* utils.py:58-62, the contents of the system messages, in order.
RECURSIVE SystemInstructions(_)
SystemInstructions(messages) ==
    IF messages = <<>> THEN <<>>
    ELSE IF IsSystem(Head(messages))
    THEN <<Head(messages).content>> \o SystemInstructions(Tail(messages))
    ELSE SystemInstructions(Tail(messages))

\* utils.py:69-72 with the loop running to its end: the instructions go to
\* the last user message.
RECURSIVE PrependToLastUser(_, _)
PrependToLastUser(transformed, header) ==
    IF transformed = <<>> THEN <<>>
    ELSE IF transformed[Len(transformed)].role = "user"
    THEN SubSeq(transformed, 1, Len(transformed) - 1)
         \o <<[role |-> "user",
               content |-> header \o <<Newline, Newline>>
                           \o transformed[Len(transformed)].content]>>
    ELSE PrependToLastUser(SubSeq(transformed, 1, Len(transformed) - 1),
                           header)
         \o <<transformed[Len(transformed)]>>

\* utils.py:69-72, the instructions go to the first user message.
RECURSIVE PrependToFirstUser(_, _)
PrependToFirstUser(transformed, header) ==
    IF transformed = <<>> THEN <<>>
    ELSE IF Head(transformed).role = "user"
    THEN <<[role |-> "user",
            content |-> header \o <<Newline, Newline>>
                        \o Head(transformed).content]>>
         \o Tail(transformed)
    ELSE <<Head(transformed)>> \o PrependToFirstUser(Tail(transformed), header)

\* utils.py:39-80, transform_messages_for_gemma.
TransformMessagesForGemma(messages) ==
    LET transformed == SelectSeq(messages, IsNotSystem)
        system_instructions == SystemInstructions(messages)
        header == <<"Instructions:", Newline>> \o JoinLines(system_instructions)
    IN IF messages = <<>> THEN messages
       ELSE IF system_instructions = <<>> THEN transformed
       ELSE IF \E i \in 1..Len(transformed) : transformed[i].role = "user"
       THEN PrependToFirstUser(transformed, header)
       ELSE <<[role |-> "user", content |-> header]>> \o transformed

\* utils.py:58-72, the caller's list after the call: `transformed` holds
\* the caller's own dicts (line 62 appends msg, no copy), and line 71
\* assigns to the "content" key of the first of them that is a user
\* message.  The list itself keeps its length and its system messages.
CallerMessagesAfter(messages) ==
    LET system_instructions == SystemInstructions(messages)
        header == <<"Instructions:", Newline>> \o JoinLines(system_instructions)
    IN IF system_instructions = <<>> THEN messages
       ELSE [i \in 1..Len(messages) |->
               IF /\ messages[i].role = "user"
                  /\ \A j \in 1..(i - 1) : messages[j].role # "user"
               THEN [role |-> "user",
                     content |-> header \o <<Newline, Newline>>
                                 \o messages[i].content]
               ELSE messages[i]]

\* A model name is a sequence of words, in any case; str.lower() maps a
\* word to its lower-case form.  The names the configuration uses
\* (pydantic_models.py:50-101), and names that differ from them in case or
\* in family.
ModelNames ==
    {<<"gemma", "3", "27b", "it">>, <<"gemini", "3", "flash", "preview">>,
     <<"gemini", "2.5", "flash">>, <<"Gemma", "3", "27b", "it">>,
     <<"GEMMA", "2">>, <<"gemma", "flash">>, <<"Gemma", "Flash">>,
     <<"gemini", "pro">>, <<"gpt", "4o">>}
Lower(word) ==
    CASE word \in {"gemma", "Gemma", "GEMMA"} -> "gemma"
      [] word \in {"flash", "Flash"} -> "flash"
      [] OTHER -> word
\* word in model_name.lower()
InLower(word, model_name) ==
    \E i \in 1..Len(model_name) : Lower(model_name[i]) = word

\* The test without the lower-casing of the name.
SupportsResponseFormatCaseSensitive(model_name) ==
    ~((\E i \in 1..Len(model_name) : model_name[i] = "gemma")
      /\ ~(\E i \in 1..Len(model_name) : model_name[i] = "flash"))

\* utils.py:9-31, supports_response_format.
SupportsResponseFormat(model_name) ==
    IF InLower("gemma", model_name) /\ ~InLower("flash", model_name)
    THEN FALSE
    ELSE IF InLower("gemini", model_name) /\ InLower("flash", model_name)
    THEN TRUE
    ELSE TRUE

\* utils.py:34-36, is_gemma_model.
IsGemmaModel(model_name) ==
    InLower("gemma", model_name) /\ ~InLower("flash", model_name)

\* utils.py:176-193, the request parameters; response_format is a key of
\* the dict only when the model supports it.
RequestParams(model_name, messages) ==
    LET processed_messages ==
            IF IsGemmaModel(model_name)
            THEN TransformMessagesForGemma(messages) ELSE messages
        keys == {"model", "messages", "temperature", "top_p"}
                \cup (IF SupportsResponseFormat(model_name)
                      THEN {"response_format"} ELSE {})
    IN [k \in keys |->
          CASE k = "model" -> model_name
            [] k = "messages" -> processed_messages
            [] k = "temperature" -> <<"model_config.temperature">>
            [] k = "top_p" -> <<"model_config.top_p">>
            [] OTHER -> <<"json_object">>]

\* What client.chat.completions.parse gives: it raises, or a response whose
\* content is None or a text.
CompletionAnswers ==
    {TransportError}
    \cup {[kind |-> "content", content |-> c] :
            c \in {<<>>, <<<<"{a}">>>>, <<<<Prose>>>>,
                   <<<<Fence, JsonTag, Newline, "{a}", Newline, Fence>>>>}}

\* utils.py:149-213, call_llm_with_json_response: the request it sends and
\* what it returns or raises.
CallLlmWithJsonResponse(model_name, messages, answer) ==
    [request |-> RequestParams(model_name, messages),
     error |-> IF answer.kind = "transport_error" THEN "APIError"
               ELSE ExtractJsonFromResponse(answer.content).error,
     value |-> IF answer.kind = "transport_error" THEN <<>>
               ELSE ExtractJsonFromResponse(answer.content).value]

\* utils.py:215-225, generate_default_title.  A note is a sequence of
\* characters: a letter, a blank, the markdown markers and the line break.
MaxNote == 4
NoteChars == {"a", " ", "*", "[", "]", Newline}
NoteTexts == UNION {[1..n -> NoteChars] : n \in 0..MaxNote}

\* The values of the parameter max_length: its default, and one short
\* enough for a note of MaxNote characters to exceed it.
default_max_length == 80
MaxLengths == {3, default_max_length}

\* str.split(newline): the lines of a text, at least one.
RECURSIVE SplitLines(_)
SplitLines(t) ==
    IF \A i \in 1..Len(t) : t[i] # Newline THEN <<t>>
    ELSE LET i == Min({k \in 1..Len(t) : t[k] = Newline})
         IN <<SubSeq(t, 1, i - 1)>> \o SplitLines(SubSeq(t, i + 1, Len(t)))

\* str.strip() of a line: drop the blanks at both ends.
RECURSIVE StripBlanks(_)
StripBlanks(t) ==
    IF t # <<>> /\ Head(t) \in {" ", Newline} THEN StripBlanks(Tail(t))
    ELSE IF t # <<>> /\ t[Len(t)] \in {" ", Newline}
    THEN StripBlanks(SubSeq(t, 1, Len(t) - 1))
    ELSE t

\* utils.py:220, the four replace calls: every star and bracket goes.
IsNotMarker(c) == c \notin {"*", "[", "]"}
RemoveMarkers(t) == SelectSeq(t, IsNotMarker)

\* utils.py:222-223, the truncation; the ellipsis is three dots.
Ellipsis == <<".", ".", ".">>
Truncate(title, max_length) ==
    IF Len(title) > max_length
    THEN SubSeq(title, 1, max_length - 3) \o Ellipsis
    ELSE title

\* utils.py:225, the placeholder of an empty title.
UntitledTask == <<"Untitled Task">>

\* utils.py:215-225: the title is made of the first line of the note.
GenerateDefaultTitle(note, max_length) ==
    LET first_line == StripBlanks(SplitLines(note)[1])
        title == Truncate(RemoveMarkers(first_line), max_length)
    IN IF title = <<>> THEN UntitledTask ELSE title

\* ------------------------------------------------------ task.py, config.py
\* Most create_task calls in one process run, and the latest second of the
\* clock.
MaxTaskCalls == 3
MaxClock == 1

\* settings.RUNTIME_MODE, as the environment spells it.
RuntimeModes == {"PROD", "TEST", "test", "DEBUG", "EVAL"}
\* str.upper()
Upper(mode) == IF mode = "test" THEN "TEST" ELSE mode

\* config.py:58-64.
IsTestEnv(mode) == Upper(mode) = "TEST"
IsDebugEnv(mode) == Upper(mode) = "DEBUG"

\* The tasks handed to create_task.  confidence is <<>> for None and <<c>>
\* for a number; enrichment is None, the empty text or a text.
TaskTitles == {"Fix bug", "Fix bug!", "!!!"}
Tasks ==
    {[title |-> title, projects |-> projects, ai_use_status |-> "processed",
      importance |-> 2, urgency |-> 1, impact |-> 50,
      confidence |-> ec[2], original_note |-> "note",
      enrichment |-> ec[1]] :
        title \in TaskTitles, projects \in {<<>>, <<"P1", "P2">>},
        ec \in {<<None, <<>>>>, <<"", <<95>>>>, <<"insight", <<50>>>>,
                <<"insight", <<>>>>, <<None, <<0>>>>}}

\* What notion_client.data_sources.query gives _build_properties: it
\* raises, or results without or with a page.
ProjectQueryAnswers ==
    {[kind |-> "raises"], [kind |-> "results", ids |-> <<>>],
     [kind |-> "results", ids |-> <<"project-page-1">>]}
\* What notion_client.pages.create gives: it raises, or a page.
PageCreateAnswers == {[kind |-> "raises"], [kind |-> "page"]}

\* task.py:104-105: the project is looked up.
QueriesProject(task, include_relations) ==
    include_relations /\ task.projects # <<>>

\* The project names looked up when every project of the task is.
ProjectLookupsAll(task, include_relations) ==
    IF include_relations THEN task.projects ELSE <<>>

\* task.py:105-115, the project names _build_properties asks the store for:
\* task.projects[0], when relations are included and the list is not empty.
ProjectLookups(task, include_relations) ==
    IF QueriesProject(task, include_relations)
    THEN <<task.projects[1]>> ELSE <<>>

\* task.py:67-124, _build_properties.
BuildProperties(task, include_relations, query_answer) ==
    [k \in {"Name", "Importance", "Urgency", "Impact Score", "UseAIStatus",
            "Status"}
           \cup (IF QueriesProject(task, include_relations)
                    /\ query_answer.kind = "results"
                    /\ query_answer.ids # <<>>
                 THEN {"Project"} ELSE {}) |->
        CASE k = "Name" -> [title |-> task.title]
          [] k = "Importance" -> [select |-> <<"str", task.importance>>]
          [] k = "Urgency" -> [select |-> <<"str", task.urgency>>]
          [] k = "Impact Score" -> [number |-> task.impact]
          [] k = "UseAIStatus" -> [select |-> task.ai_use_status]
          [] k = "Status" -> [status |-> "Not started"]
          [] OTHER -> [relation |-> query_answer.ids[1]]]

\* The blocks when the enrichment toggle is emitted for every enrichment
\* that is not None.
BuildContentBlocksNotNone(task) ==
    <<[type |-> "toggle", title |-> "Original Note",
       text |-> task.original_note]>>
    \o (IF task.enrichment # None
        THEN <<[type |-> "toggle", title |-> "AI Enrichment",
                text |-> task.enrichment]>>
        ELSE <<>>)
    \o (IF task.confidence # <<>>
        THEN <<[type |-> "callout", title |-> "Confidence",
                text |-> task.confidence]>>
        ELSE <<>>)

\* task.py:177-209, _build_content_blocks: the toggle of the note, the
\* toggle of a non-empty enrichment, the callout of a confidence.
BuildContentBlocks(task) ==
    <<[type |-> "toggle", title |-> "Original Note",
       text |-> task.original_note]>>
    \o (IF task.enrichment \notin {None, ""}
        THEN <<[type |-> "toggle", title |-> "AI Enrichment",
                text |-> task.enrichment]>>
        ELSE <<>>)
    \o (IF task.confidence # <<>>
        THEN <<[type |-> "callout", title |-> "Confidence",
                text |-> task.confidence]>>
        ELSE <<>>)

\* task.py:126-137, _validate_task_payload.
ValidateTaskPayload(properties, children) ==
    IF ~({"Name", "Importance", "Urgency", "Impact Score", "UseAIStatus",
          "Status"} \subseteq DOMAIN properties)
       \/ children = <<>>
    THEN "ValueError" ELSE None

\* task.py:143-145: the characters outside [a-zA-Z0-9 _-] go, the ends are
\* stripped, spaces become underscores, and an empty name is replaced.
SafeTitle(title) ==
    CASE title \in {"Fix bug", "Fix bug!"} -> "Fix_bug"
      [] OTHER -> "untitled_task"

\* task.py:152-174, what is written to the file; of the content, its first
\* line (the heading with the task's title) is kept.
DebugFileContent(task) == <<"#", task.title>>

\* task.py:147-150, the path of the debug file: the name, with the second
\* of the clock when the name is taken.
DebugFilePath(title, files, clock) ==
    IF <<SafeTitle(title)>> \in DOMAIN files
    THEN <<SafeTitle(title), clock>>
    ELSE <<SafeTitle(title)>>

\* -------------------------------------------------- metadata.py, batching
\* Longest note list handed to _classify_notes_batched on its own, and the
\* largest configured batch size.
MaxBatchNotes == 4
MaxBatchSize == 3

\* MetadataConfig.batch_size, a positive number of notes.
BatchSizes == 1..MaxBatchSize

\* The note lists; two notes of a list may have the same text.
NoteLists == UNION {[1..n -> Notes] : n \in 0..MaxBatchNotes}

\* ------------------------------------------------------------------- state
VARIABLES
    entry,              \* which public function the caller runs
    pc,                 \* the position of the run
    nNotes,             \* len(notes); note i is the note at global index i
    fetch_failed,       \* the project query raised
    all_projects_metadata, \* titles _fetch_project_metadata returned
    projects_info,      \* the title list handed to the classifier
    batch_start,        \* loop variable of _classify_notes_batched
    batch_results,      \* `results` of the running _classify_batch
    all_classifications,
    llm_calls,          \* classification model calls made
    metadata_results,   \* what MetadataProcessor.process returned
    outcome,            \* of the entry function: running, returned, raised
    error,              \* the exception that ended the entry function
    failed_stage,       \* the stage the exception came from
    results,            \* the list process_notes returns
    note_outcomes,      \* per direct process_note call: task, error, calls
    trace,              \* the steps of the run, in the order they were taken
    notion_cache,       \* _notion_cache of notion.py:6
    cpc,                \* idle, or inside the loop of get_inner_page_blocks
    cur_page_id,        \* page_id of the running get_inner_page_blocks
    blocks,             \* `blocks` of the running call
    start_cursor,       \* `start_cursor` of the running call, <<>> for None
    requests,           \* the transport requests of the running/last fetch
    calls,              \* facade calls made so far, per call
    fetches,            \* transport fetches started so far, per call
    ok_fetches,         \* transport fetches that completed, per cache key
    stored,             \* every (key, value) ever put into the cache
    last,               \* the facade call that ended last
    stage_call,         \* the stage operation a caller ran last, its result
    util_call,          \* the utils.py function a caller ran last, its result
    runtime_mode,       \* settings.RUNTIME_MODE
    debug_files,        \* the files of DEBUG_TASKS_DIR: path |-> content
    clock,              \* datetime.now(), in seconds
    store_calls,        \* the calls create_task made to the external store
    task_calls,         \* create_task calls so far
    task_ret,           \* what the last create_task returned or raised
    batched             \* a _classify_notes_batched call run on its own

pvars == <<entry, pc, nNotes, fetch_failed, all_projects_metadata, projects_info,
          batch_start, batch_results, all_classifications, llm_calls,
          metadata_results, outcome, error, failed_stage, results,
          note_outcomes, trace>>

cvars == <<notion_cache, cpc, cur_page_id, blocks, start_cursor, requests,
           calls, fetches, ok_fetches, stored, last>>

svars == <<stage_call>>

\* The variables of the components that are run on their own.
uvars == <<util_call>>
tvars == <<runtime_mode, debug_files, clock, store_calls, task_calls,
           task_ret>>
bvars == <<batched>>
xvars == <<svars, uvars, tvars, bvars>>

vars == <<pvars, cvars, xvars>>

\* One step of a run: what was done, and the global index of the note (or
\* of the first note of the batch) it was done for.
Step(step, at) == [step |-> step, at |-> at]

BatchLen == IF nNotes - batch_start < batch_size
            THEN nNotes - batch_start ELSE batch_size

\* notion.py:6 and the idle facade.
CacheInit ==
    /\ notion_cache = EmptyDict
    /\ cpc = "idle"
    /\ cur_page_id = None
    /\ blocks = <<>>
    /\ start_cursor = <<>>
    /\ requests = <<>>
    /\ calls = [c \in FacadeCalls |-> 0]
    /\ fetches = [c \in FacadeCalls |-> 0]
    /\ ok_fetches = [k \in CacheKeys |-> 0]
    /\ stored = {}
    /\ last = [call |-> [op |-> "none", id |-> None, filter |-> "n/a"],
               hit |-> FALSE, raised |-> FALSE, value |-> <<>>,
               transport |-> 0]

\* No create_task call has been made; DEBUG_TASKS_DIR is empty.
TaskIdle ==
    /\ debug_files = EmptyDict
    /\ clock = 0
    /\ store_calls = <<>>
    /\ task_calls = 0
    /\ task_ret = [kind |-> "none"]

\* No stage operation has been run on its own.
StagesInit ==
    /\ stage_call = [op |-> "none"]
    /\ util_call = [op |-> "none"]
    /\ runtime_mode = "PROD"
    /\ TaskIdle
    /\ batched = [pc |-> "idle"]

Init ==
    /\ CacheInit
    /\ StagesInit
    /\ entry \in {"process_notes", "process_note"}
    /\ nNotes \in 0..MaxNotes
    /\ pc = "fetch"
    /\ fetch_failed = FALSE
    /\ all_projects_metadata = {}
    /\ projects_info = {}
    /\ batch_start = 0
    /\ batch_results = <<>>
    /\ all_classifications = <<>>
    /\ llm_calls = 0
    /\ metadata_results = <<>>
    /\ outcome = "running"
    /\ error = None
    /\ failed_stage = None
    /\ results = <<>>
    /\ note_outcomes = <<>>
    /\ trace = <<>>

\* An exception leaves MetadataProcessor.process; neither process_notes
\* (run.py:160 is outside the try) nor the direct caller catches it.
Raise(exc, stage) ==
    /\ pc' = "done"
    /\ outcome' = "raised"
    /\ error' = exc
    /\ failed_stage' = stage

\* metadata.py:38-41 with _fetch_project_metadata (metadata.py:205-262).
FetchProjectMetadata ==
    /\ pc = "fetch"
    /\ \E answer \in QueryAnswers :
         /\ fetch_failed' = answer.raised
         /\ IF answer.raised /\ OnFetchFailure = "raise"
            THEN /\ Raise(answer.exc, "fetch")
                 /\ UNCHANGED <<all_projects_metadata, projects_info>>
            ELSE /\ all_projects_metadata' = answer.titles
                 /\ projects_info' = answer.titles
                 /\ pc' = "classify"
                 /\ UNCHANGED <<outcome, error, failed_stage>>
    /\ UNCHANGED <<entry, nNotes, batch_start, batch_results,
                   all_classifications, llm_calls, metadata_results, results,
                   note_outcomes, trace>>
    /\ UNCHANGED <<cvars, xvars>>

\* metadata.py:85-91 and 146-161: the next batch's model call.  The call
\* raises on a transport error or on text no JSON can be extracted from;
\* otherwise the answer is a list of entries, read one by one below.
ClassifyBatchCall ==
    /\ pc = "classify"
    /\ batch_start < nNotes
    /\ llm_calls' = llm_calls + 1
    /\ \/ \E failure \in {"transport_error", "malformed"} :
            /\ Raise(failure, "classification")
            /\ UNCHANGED batch_results
       \/ /\ batch_results' = <<>>
          /\ pc' = "parse"
          /\ UNCHANGED <<outcome, error, failed_stage>>
    /\ UNCHANGED <<entry, nNotes, fetch_failed, all_projects_metadata,
                   projects_info, batch_start, all_classifications,
                   metadata_results, results, note_outcomes, trace>>
    /\ UNCHANGED <<cvars, xvars>>

\* metadata.py:163-171: one iteration of the loop over the answer's entries;
\* the answer holds at most one entry more than the batch has notes.
ClassifyBatchItem ==
    /\ pc = "parse"
    /\ Len(batch_results) <= BatchLen
    /\ \E item \in RawItems(batch_start, batch_start + BatchLen - 1) :
         IF item.bad
         THEN /\ Raise("KeyError", "classification")
              /\ UNCHANGED batch_results
         ELSE /\ batch_results' = Append(batch_results, ParseItem(item))
              /\ UNCHANGED <<pc, outcome, error, failed_stage>>
    /\ UNCHANGED <<entry, nNotes, fetch_failed, all_projects_metadata,
                   projects_info, batch_start, all_classifications, llm_calls,
                   metadata_results, results, note_outcomes, trace>>
    /\ UNCHANGED <<cvars, xvars>>

\* metadata.py:173-193 and 92: the answer's entries are exhausted; the count
\* check, then extend all_classifications and go on with the next batch.
ClassifyBatchReturn ==
    /\ pc = "parse"
    /\ LET r == ClassifyBatchFinish(batch_results, BatchLen, batch_start)
       IN IF r.raised
          THEN /\ Raise("ValueError", "classification")
               /\ UNCHANGED <<all_classifications, batch_start, batch_results,
                              trace>>
          ELSE /\ all_classifications' = all_classifications \o r.value
               /\ trace' = Append(trace, Step("batch_classified", batch_start))
               /\ batch_start' = batch_start + batch_size
               /\ batch_results' = <<>>
               /\ pc' = "classify"
               /\ UNCHANGED <<outcome, error, failed_stage>>
    /\ UNCHANGED <<entry, nNotes, fetch_failed, all_projects_metadata,
                   projects_info, llm_calls, metadata_results,
                   results, note_outcomes>>
    /\ UNCHANGED <<cvars, xvars>>

\* metadata.py:46-78: slice the metadata per note and return the results.
MetadataResultOf(classification) ==
    [classification |-> classification,
     project_metadata |->
        {p \in {classification.projects[j] :
                    j \in 1..Len(classification.projects)} :
            p \in all_projects_metadata},
     is_do_now |-> IsDoNow(classification)]

ProcessReturn ==
    /\ pc = "classify"
    /\ batch_start >= nNotes
    /\ metadata_results' =
         [i \in 1..Len(all_classifications) |->
             MetadataResultOf(all_classifications[i])]
    /\ pc' = IF entry = "process_notes" THEN "log" ELSE "direct"
    /\ UNCHANGED <<entry, nNotes, fetch_failed, all_projects_metadata,
                   projects_info, batch_start, batch_results,
                   all_classifications, llm_calls, outcome, error,
                   failed_stage, results, note_outcomes, trace>>
    /\ UNCHANGED <<cvars, xvars>>

\* Reading obj.name of a pydantic object raises AttributeError unless the
\* class declares the field.
HasAttr(obj, name) == name \in DOMAIN obj

\* run.py:121-132, the task _create_do_now_task assembles; indexing an empty
\* confidence_scores list raises IndexError.
CreateDoNowTask(note, metadata_result) ==
    IF Len(metadata_result.classification.confidence_scores) = 0
    THEN [error |-> "IndexError", task |-> <<>>]
    ELSE [error |-> None,
          task |-> <<[title |-> <<"default_title", note>>,
                      projects |-> metadata_result.classification.projects,
                      ai_use_status |-> "processed",
                      importance |-> 4,
                      urgency |-> 4,
                      impact |-> 100,
                      confidence |->
                         metadata_result.classification.confidence_scores[1],
                      original_note |-> note,
                      enrichment |-> None]>>]

\* run.py:19-49, process_note up to the DO_NOW branch.  Lines 44 and 47 read
\* classification.do_now.  `task` is <<>> (no task) or <<t>>; `continues`
\* says that control goes on to the ranking step of line 51.
ProcessNoteHead(note, metadata_result) ==
    IF ~HasAttr(metadata_result.classification, "do_now")
    THEN [error |-> "AttributeError", task |-> <<>>,
          short_circuit |-> FALSE, continues |-> FALSE]
    ELSE IF metadata_result.classification.do_now
    THEN [error |-> CreateDoNowTask(note, metadata_result).error,
          task |-> CreateDoNowTask(note, metadata_result).task,
          short_circuit |-> TRUE, continues |-> FALSE]
    ELSE [error |-> None, task |-> <<>>,
          short_circuit |-> FALSE, continues |-> TRUE]

\* run.py:51-96, process_note after the DO_NOW branch: ranking, the
\* enrichment gate, the status, and the task of lines 85-96, whose do_now
\* argument reads classification.do_now again.  `steps` lists the steps
\* taken, in the order the code takes them.
ProcessNoteTail(note, metadata_result, b_answer, j_answer, e_answer) ==
    LET rk == RankingProcess(note, b_answer, j_answer)
    IN IF rk.error # None
       THEN [error |-> rk.error, task |-> <<>>, executor_calls |-> 1,
             judge_calls |-> 1, enrichment_calls |-> 0,
             steps |-> <<"brainstorm", "judge">>]
       ELSE LET r == rk.result[1]
                en == EnrichmentProcess(note, r.impact, e_answer)
            IN IF ~HasAttr(metadata_result.classification, "do_now")
               THEN [error |-> "AttributeError", task |-> <<>>,
                     executor_calls |-> 1, judge_calls |-> 1,
                     enrichment_calls |-> en.llm_calls,
                     steps |-> <<"brainstorm", "judge", "enrichment_gate">>]
               ELSE [error |-> None,
                     task |-> <<[title |-> r.title,
                                 projects |->
                                    metadata_result.classification.projects,
                                 ai_use_status |->
                                    DetermineAIUseStatus(r.confidence),
                                 importance |-> r.importance,
                                 urgency |-> r.urgency,
                                 impact |-> r.impact,
                                 confidence |-> r.confidence,
                                 original_note |-> note,
                                 enrichment |->
                                    IF en.result = <<>> THEN None
                                    ELSE en.result[1].enriched_text]>>,
                     executor_calls |-> 1, judge_calls |-> 1,
                     enrichment_calls |-> en.llm_calls,
                     steps |-> <<"brainstorm", "judge", "enrichment_gate">>]

\* task.py:20-65 as process_note sees it: create_task returns, or in a mode
\* other than TEST the page creation raises and create_task raises it again.
CreateTaskError(mode, create_answer) ==
    IF ~IsTestEnv(mode) /\ create_answer.kind = "raises"
    THEN "APIError" ELSE None

\* run.py:19-114, process_note: the task is assembled by the DO_NOW branch
\* or by the steps after it and is then handed to create_task (lines 103
\* and 135).  The answers of the models matter only when control reaches
\* the ranking step.
ReachesRanking(note, metadata_result) ==
    ProcessNoteHead(note, metadata_result).continues

ProcessNoteBody(note, metadata_result, b_answer, j_answer, e_answer, p_answer) ==
    LET head == ProcessNoteHead(note, metadata_result)
        tail == ProcessNoteTail(note, metadata_result,
                                b_answer, j_answer, e_answer)
        assembled == IF head.continues THEN tail ELSE head
        persist_error == IF assembled.error = None
                         THEN CreateTaskError(runtime_mode, p_answer)
                         ELSE assembled.error
    IN [error |-> persist_error,
        task |-> IF persist_error = None THEN assembled.task ELSE <<>>,
        short_circuit |-> head.short_circuit,
        continues |-> head.continues,
        executor_calls |-> IF head.continues THEN tail.executor_calls ELSE 0,
        judge_calls |-> IF head.continues THEN tail.judge_calls ELSE 0,
        enrichment_calls |->
            IF head.continues THEN tail.enrichment_calls ELSE 0,
        steps |-> (IF head.continues THEN tail.steps ELSE <<>>)
                  \o (IF assembled.error = None THEN <<"persist">>
                      ELSE <<>>)]

\* The answers the three models and the store give for one note; no call is
\* made, and so no answer is drawn, for a step the note does not reach.
NoAnswer == [kind |-> "no_call"]
AnswersFor(note, metadata_result) ==
    IF ReachesRanking(note, metadata_result)
    THEN BrainstormAnswers \X JudgeAnswers \X EnrichmentAnswers
         \X PageCreateAnswers
    ELSE IF ProcessNoteHead(note, metadata_result).error = None
    THEN {<<NoAnswer, NoAnswer, NoAnswer, p>> : p \in PageCreateAnswers}
    ELSE {<<NoAnswer, NoAnswer, NoAnswer, NoAnswer>>}

\* The steps of one process_note call, as steps of the run.
StepsOfNote(idx, steps) == [k \in 1..Len(steps) |-> Step(steps[k], idx)]

\* The steps of the process_note calls of the loop of run.py:168-178 for the
\* results at positions 1..n, one note after the other.
RECURSIVE StepsOfNotes(_, _)
StepsOfNotes(a, n) ==
    IF n = 0 THEN <<>>
    ELSE StepsOfNotes(a, n - 1)
         \o StepsOfNote(n - 1,
                ProcessNoteBody(n - 1, metadata_results[n],
                                a[n][1], a[n][2], a[n][3], a[n][4]).steps)

\* run.py:162-180.  The summary loop of lines 163-164 formats
\* mr.classification.do_now of every result, outside any try.  The loop of
\* lines 168-178 runs once per pair of zip(notes, metadata_results) and
\* records (note, task, None) or (note, None, error).
ProcessNotesAfterMetadata ==
    /\ pc = "log"
    /\ IF \E i \in 1..Len(metadata_results) :
            ~HasAttr(metadata_results[i].classification, "do_now")
       THEN /\ outcome' = "raised"
            /\ error' = "AttributeError"
            /\ failed_stage' = "summary"
            /\ UNCHANGED <<results, trace>>
       ELSE /\ outcome' = "returned"
            /\ \E a \in [1..Len(metadata_results) ->
                           UNION {AnswersFor(i - 1, metadata_results[i]) :
                                    i \in 1..Len(metadata_results)}] :
                 /\ \A i \in 1..Len(metadata_results) :
                       a[i] \in AnswersFor(i - 1, metadata_results[i])
                 /\ results' =
                      [i \in 1..(IF nNotes < Len(metadata_results)
                                 THEN nNotes ELSE Len(metadata_results)) |->
                         [note |-> i - 1,
                          task |->
                            ProcessNoteBody(i - 1, metadata_results[i],
                                            a[i][1], a[i][2], a[i][3],
                                            a[i][4]).task,
                          error |->
                            ProcessNoteBody(i - 1, metadata_results[i],
                                            a[i][1], a[i][2], a[i][3],
                                            a[i][4]).error]]
                 /\ trace' =
                      trace \o StepsOfNotes(a,
                                  IF nNotes < Len(metadata_results)
                                  THEN nNotes ELSE Len(metadata_results))
            /\ UNCHANGED <<error, failed_stage>>
    /\ pc' = "done"
    /\ UNCHANGED <<entry, nNotes, fetch_failed, all_projects_metadata,
                   projects_info, batch_start, batch_results,
                   all_classifications, llm_calls, metadata_results,
                   note_outcomes>>
    /\ UNCHANGED <<cvars, xvars>>

\* A caller hands process_note each note together with the result
\* MetadataProcessor.process returned for it (run.py:173 without the
\* summary loop in front of it).
ProcessNote ==
    /\ pc = "direct"
    /\ Len(note_outcomes) < Len(metadata_results)
    /\ LET i == Len(note_outcomes) + 1
       IN \E a \in AnswersFor(i - 1, metadata_results[i]) :
            LET out == ProcessNoteBody(i - 1, metadata_results[i],
                                       a[1], a[2], a[3], a[4])
            IN /\ note_outcomes' = Append(note_outcomes, out)
               /\ trace' = trace \o StepsOfNote(i - 1, out.steps)
    /\ UNCHANGED <<entry, pc, nNotes, fetch_failed, all_projects_metadata,
                   projects_info, batch_start, batch_results,
                   all_classifications, llm_calls, metadata_results, outcome,
                   error, failed_stage, results>>
    /\ UNCHANGED <<cvars, xvars>>

Next ==
    \/ FetchProjectMetadata
    \/ ClassifyBatchCall
    \/ ClassifyBatchItem
    \/ ClassifyBatchReturn
    \/ ProcessReturn
    \/ ProcessNotesAfterMetadata
    \/ ProcessNote

Spec == Init /\ [][Next]_vars

\* ------------------------------------------------------- the facade's calls
TotalCalls == LET RECURSIVE Sum(_)
                  Sum(S) == IF S = {} THEN 0
                            ELSE LET c == CHOOSE x \in S : TRUE
                                 IN calls[c] + Sum(S \ {c})
              IN Sum(FacadeCalls)

Ended(call, hit, raised, value, transport) ==
    [call |-> call, hit |-> hit, raised |-> raised, value |-> value,
     transport |-> transport]

\* notion.py:49-89, query_pages_filtered as a whole: the cache check, and on
\* a miss the transport call, which raises or answers, and the store into the
\* cache.
QueryPagesFiltered ==
    /\ cpc = "idle"
    /\ TotalCalls < MaxCalls
    /\ \E call \in QueryCalls :
         LET key == QueryCacheKey(call.id, call.filter)
             request == QueryRequest(call.id, call.filter)
         IN /\ calls' = [calls EXCEPT ![call] = @ + 1]
            /\ IF key \in DOMAIN notion_cache
               THEN /\ last' = Ended(call, TRUE, FALSE, notion_cache[key], 0)
                    /\ UNCHANGED <<notion_cache, fetches, ok_fetches, stored>>
               ELSE /\ fetches' = [fetches EXCEPT ![call] = @ + 1]
                    /\ \/ /\ last' = Ended(call, FALSE, TRUE, <<>>, 1)
                          /\ notion_cache' =
                               OnTransportError(notion_cache, key, <<>>)
                          /\ UNCHANGED <<ok_fetches, stored>>
                       \/ /\ notion_cache' =
                               Put(notion_cache, key, StoreQuery(request))
                          /\ ok_fetches' = [ok_fetches EXCEPT ![key] = @ + 1]
                          /\ stored' = stored \cup {<<key, StoreQuery(request)>>}
                          /\ last' = Ended(call, FALSE, FALSE,
                                           StoreQuery(request), 1)
    /\ UNCHANGED <<cpc, cur_page_id, blocks, start_cursor, requests>>
    /\ UNCHANGED <<pvars, xvars>>

\* notion.py:16-30, get_inner_page_blocks up to the loop: the cache check,
\* and on a miss the empty list and the None cursor.
GetInnerPageBlocks ==
    /\ cpc = "idle"
    /\ TotalCalls < MaxCalls
    /\ \E call \in BlockCalls :
         LET key == BlocksCacheKey(call.id)
         IN /\ calls' = [calls EXCEPT ![call] = @ + 1]
            /\ IF key \in DOMAIN notion_cache
               THEN /\ last' = Ended(call, TRUE, FALSE, notion_cache[key], 0)
                    /\ UNCHANGED <<cpc, cur_page_id, blocks, start_cursor,
                                   requests, fetches>>
               ELSE /\ cpc' = "paging"
                    /\ cur_page_id' = call.id
                    /\ blocks' = <<>>
                    /\ start_cursor' = <<>>
                    /\ requests' = <<>>
                    /\ fetches' = [fetches EXCEPT ![call] = @ + 1]
                    /\ UNCHANGED last
    /\ UNCHANGED <<notion_cache, ok_fetches, stored>>
    /\ UNCHANGED <<pvars, xvars>>

CurCall == [op |-> "get_inner_page_blocks", id |-> cur_page_id, filter |-> "n/a"]

\* notion.py:32-47, one iteration of the loop: the transport request, which
\* raises or answers; the extend; the exit on has_more false with the store
\* into the cache, or the next cursor.
BlocksPage ==
    /\ cpc = "paging"
    /\ LET request == BlocksRequest(cur_page_id, start_cursor)
           response == StoreBlocksPage(cur_page_id, PageOfCursor(start_cursor))
           key == BlocksCacheKey(cur_page_id)
       IN /\ requests' = Append(requests, request)
          /\ \/ /\ cpc' = "idle"
                /\ last' = Ended(CurCall, FALSE, TRUE, <<>>, Len(requests) + 1)
                /\ notion_cache' = OnTransportError(notion_cache, key, blocks)
                /\ UNCHANGED <<ok_fetches, stored, blocks, start_cursor>>
             \/ /\ blocks' = ExtendBlocks(blocks, response)
                /\ IF ~response.has_more
                   THEN /\ notion_cache' = Put(notion_cache, key, blocks')
                        /\ ok_fetches' = [ok_fetches EXCEPT ![key] = @ + 1]
                        /\ stored' = stored \cup {<<key, blocks'>>}
                        /\ cpc' = "idle"
                        /\ last' = Ended(CurCall, FALSE, FALSE, blocks',
                                         Len(requests) + 1)
                        /\ UNCHANGED start_cursor
                   ELSE /\ start_cursor' = response.next_cursor
                        /\ UNCHANGED <<notion_cache, ok_fetches, stored, cpc,
                                       last>>
    /\ UNCHANGED <<cur_page_id, calls, fetches>>
    /\ UNCHANGED <<pvars, xvars>>

NextCache ==
    \/ QueryPagesFiltered
    \/ GetInnerPageBlocks
    \/ BlocksPage

\* The facade on its own: no pipeline run is in progress.
InitCache ==
    /\ CacheInit
    /\ StagesInit
    /\ entry = "process_notes"
    /\ nNotes = 0
    /\ pc = "done"
    /\ fetch_failed = FALSE
    /\ all_projects_metadata = {}
    /\ projects_info = {}
    /\ batch_start = 0
    /\ batch_results = <<>>
    /\ all_classifications = <<>>
    /\ llm_calls = 0
    /\ metadata_results = <<>>
    /\ outcome = "returned"
    /\ error = None
    /\ failed_stage = None
    /\ results = <<>>
    /\ note_outcomes = <<>>
    /\ trace = <<>>

SpecCache == InitCache /\ [][NextCache]_vars

\* ------------------------------------------- the stages, run on their own
\* No pipeline run is in progress.
PipelineIdle ==
    /\ entry = "process_notes"
    /\ nNotes = 0
    /\ pc = "done"
    /\ fetch_failed = FALSE
    /\ all_projects_metadata = {}
    /\ projects_info = {}
    /\ batch_start = 0
    /\ batch_results = <<>>
    /\ all_classifications = <<>>
    /\ llm_calls = 0
    /\ metadata_results = <<>>
    /\ outcome = "returned"
    /\ error = None
    /\ failed_stage = None
    /\ results = <<>>
    /\ note_outcomes = <<>>
    /\ trace = <<>>

\* The stage objects keep no state between calls, so a behaviour is one call.
\* RankingProcessor.process(note, project_metadata).
RankingProcessCall ==
    /\ stage_call.op = "none"
    /\ \E note \in Notes, b \in BrainstormAnswers, j \in JudgeAnswers :
         stage_call' = [op |-> "RankingProcessor.process", note |-> note,
                   brainstorm_answer |-> b, judge_answer |-> j,
                   out |-> RankingProcess(note, b, j)]
    /\ UNCHANGED <<pvars, cvars, uvars, tvars, bvars>>

\* EnrichmentProcessor.process(note, impact_score).
EnrichmentProcessCall ==
    /\ stage_call.op = "none"
    /\ \E note \in Notes, impact_score \in ImpactInputs,
          e \in EnrichmentAnswers :
         stage_call' = [op |-> "EnrichmentProcessor.process", note |-> note,
                   impact_score |-> impact_score, answer |-> e,
                   out |-> EnrichmentProcess(note, impact_score, e)]
    /\ UNCHANGED <<pvars, cvars, uvars, tvars, bvars>>

\* TaskManager.determine_ai_use_status(confidence).
DetermineAIUseStatusCall ==
    /\ stage_call.op = "none"
    /\ \E confidence \in ConfidenceValues :
         stage_call' = [op |-> "TaskManager.determine_ai_use_status",
                   confidence |-> confidence,
                   out |-> DetermineAIUseStatus(confidence)]
    /\ UNCHANGED <<pvars, cvars, uvars, tvars, bvars>>

\* The results MetadataProcessor.process gives for a note classified DO_NOW.
DoNowResults ==
    {[classification |->
         [note_id |-> 0, projects |-> ProjectList(k), action |-> "DO_NOW",
          reasoning |-> "llm", confidence_scores |-> scores],
      project_metadata |-> {},
      is_do_now |-> TRUE] :
        k \in {0, 1}, scores \in {<<>>, <<95>>, <<90>>, <<50, 95>>}}

\* _create_do_now_task(note, metadata_result, notion_client, config) of
\* run.py, up to the task it assembles.
CreateDoNowTaskCall ==
    /\ stage_call.op = "none"
    /\ \E note \in Notes, mr \in DoNowResults :
         stage_call' = [op |-> "_create_do_now_task", note |-> note,
                   metadata_result |-> mr,
                   out |-> CreateDoNowTask(note, mr)]
    /\ UNCHANGED <<pvars, cvars, uvars, tvars, bvars>>

NextStages ==
    \/ RankingProcessCall
    \/ EnrichmentProcessCall
    \/ DetermineAIUseStatusCall
    \/ CreateDoNowTaskCall

InitStages ==
    /\ CacheInit
    /\ PipelineIdle
    /\ StagesInit

SpecStages == InitStages /\ [][NextStages]_vars

\* ------------------------------------- the functions of utils.py, one call
\* extract_json_from_response(response_content).
ExtractJsonCall ==
    /\ util_call.op = "none"
    /\ \E c \in {<<>>} \cup {<<t>> : t \in Texts} :
         util_call' = [op |-> "extract_json_from_response",
                       response_content |-> c,
                       out |-> ExtractJsonFromResponse(c)]
    /\ UNCHANGED <<pvars, cvars, svars, tvars, bvars>>

\* transform_messages_for_gemma(messages).
TransformMessagesCall ==
    /\ util_call.op = "none"
    /\ \E messages \in MessageLists :
         util_call' = [op |-> "transform_messages_for_gemma",
                       messages |-> messages,
                       out |-> TransformMessagesForGemma(messages),
                       \* the caller's list once the call has returned,
                       \* and what a second call on that list returns
                       messages_after |-> CallerMessagesAfter(messages),
                       out_again |->
                          TransformMessagesForGemma(
                              CallerMessagesAfter(messages))]
    /\ UNCHANGED <<pvars, cvars, svars, tvars, bvars>>

\* call_llm_with_json_response(client, model_config, messages).
CallLlmCall ==
    /\ util_call.op = "none"
    /\ \E model_name \in ModelNames, messages \in PlainMessageLists,
          answer \in CompletionAnswers :
         util_call' = [op |-> "call_llm_with_json_response",
                       model_name |-> model_name,
                       messages |-> messages,
                       out |-> CallLlmWithJsonResponse(model_name, messages,
                                                       answer)]
    /\ UNCHANGED <<pvars, cvars, svars, tvars, bvars>>

\* generate_default_title(note, max_length).
GenerateDefaultTitleCall ==
    /\ util_call.op = "none"
    /\ \E note \in NoteTexts, max_length \in MaxLengths :
         util_call' = [op |-> "generate_default_title",
                       note |-> note, max_length |-> max_length,
                       out |-> GenerateDefaultTitle(note, max_length)]
    /\ UNCHANGED <<pvars, cvars, svars, tvars, bvars>>

NextUtils ==
    \/ ExtractJsonCall
    \/ TransformMessagesCall
    \/ CallLlmCall
    \/ GenerateDefaultTitleCall

InitUtils ==
    /\ CacheInit
    /\ PipelineIdle
    /\ StagesInit

SpecUtils == InitUtils /\ [][NextUtils]_vars

\* ------------------------------------------------ TaskManager.create_task
\* task.py:20-65, create_task(task).
CreateTask ==
    /\ task_calls < MaxTaskCalls
    /\ task_calls' = task_calls + 1
    /\ \E task \in Tasks, query_answer \in ProjectQueryAnswers,
          create_answer \in PageCreateAnswers :
         LET include_relations == ~IsTestEnv(runtime_mode)
             properties == BuildProperties(task, include_relations,
                                           query_answer)
             children == BuildContentBlocks(task)
             lookups == ProjectLookups(task, include_relations)
             queried == [k \in 1..Len(lookups) |-> "data_sources.query"]
             \* what the store answered to the lookup, if one was made
             query == IF lookups = <<>> THEN <<>> ELSE <<query_answer>>
             path == DebugFilePath(task.title, debug_files, clock)
         IN IF IsTestEnv(runtime_mode)
            THEN IF ValidateTaskPayload(properties, children) # None
                 THEN /\ task_ret' = [kind |-> "raised", error |-> "ValueError",
                                      task |-> task, lookups |-> lookups,
                                      query |-> query,
                                      properties |-> properties]
                      /\ store_calls' = queried
                      /\ UNCHANGED debug_files
                 ELSE /\ debug_files' = Put(debug_files, path, DebugFileContent(task))
                      /\ store_calls' = queried
                      /\ task_ret' = [kind |-> "returned",
                                      object |-> "debug_task", url |-> path,
                                      properties |-> properties,
                                      children |-> children, task |-> task,
                                      lookups |-> lookups, query |-> query]
            ELSE /\ store_calls' = queried \o <<"pages.create">>
                 /\ UNCHANGED debug_files
                 /\ task_ret' =
                      IF create_answer.kind = "raises"
                      THEN [kind |-> "raised", error |-> "APIError",
                            task |-> task, lookups |-> lookups,
                            query |-> query, properties |-> properties]
                      ELSE [kind |-> "returned", object |-> "page",
                            url |-> <<"notion.so">>,
                            properties |-> properties,
                            children |-> children, task |-> task,
                            lookups |-> lookups, query |-> query]
    /\ UNCHANGED <<runtime_mode, clock>>
    /\ UNCHANGED <<pvars, cvars, svars, uvars, bvars>>

\* A second passes.
Tick ==
    /\ clock < MaxClock
    /\ clock' = clock + 1
    /\ UNCHANGED <<runtime_mode, debug_files, store_calls, task_calls,
                   task_ret>>
    /\ UNCHANGED <<pvars, cvars, svars, uvars, bvars>>

NextTask ==
    \/ CreateTask
    \/ Tick

\* The process starts in the mode its environment sets.
InitTask ==
    /\ CacheInit
    /\ PipelineIdle
    /\ stage_call = [op |-> "none"]
    /\ util_call = [op |-> "none"]
    /\ runtime_mode \in RuntimeModes
    /\ TaskIdle
    /\ batched = [pc |-> "idle"]

SpecTask == InitTask /\ [][NextTask]_vars

\* ------------------------------- _classify_notes_batched, run on its own
\* metadata.py:86, notes[batch_start:batch_start + batch_size], with
\* batch_start as `first`.
Slice(notes, first, size) ==
    SubSeq(notes, first + 1, Min({Len(notes), first + size}))

\* The indices handed to _classify_batch when they are counted from the
\* start of the batch.
BatchIndicesLocal(first, batch) ==
    [k \in 1..Len(batch) |-> k - 1]

\* metadata.py:87, list(range(batch_start, batch_start + len(batch))).
BatchIndices(first, batch) ==
    [k \in 1..Len(batch) |-> first + k - 1]

\* What _classify_batch gives for a batch when it returns: one
\* classification per note of the batch (metadata.py:173-189), each with an
\* action of the classifier's choice.
BatchAnswers(batch, indices) ==
    {[k \in 1..Len(batch) |->
         [note_id |-> indices[k], note |-> batch[k], action |-> a[k]]] :
        a \in [1..Len(batch) -> {"DO_NOW", "REFINE"}]}

\* metadata.py:85-92, one iteration of the loop: the slice, the indices, the
\* _classify_batch call, which raises (and so ends the call, there is no
\* try around it) or returns, and the extend.
ClassifyNotesBatchedStep ==
    /\ batched.pc = "loop"
    /\ batched.batch_start < Len(batched.notes)
    /\ LET batch == Slice(batched.notes, batched.batch_start,
                          batched.batch_size)
           batch_indices == BatchIndices(batched.batch_start, batch)
           call == [batch |-> batch, indices |-> batch_indices]
       IN \/ batched' = [batched EXCEPT
                            !.calls = Append(@, call),
                            !.pc = "raised"]
          \/ \E classifications \in BatchAnswers(batch, batch_indices) :
                batched' = [batched EXCEPT
                              !.calls = Append(@, call),
                              !.returns = Append(@, classifications),
                              !.all_classifications = @ \o classifications,
                              !.batch_start = @ + batched.batch_size]
    /\ UNCHANGED <<pvars, cvars, svars, uvars, tvars>>

\* metadata.py:85 and 94: the range is exhausted, return all_classifications.
ClassifyNotesBatchedReturn ==
    /\ batched.pc = "loop"
    /\ batched.batch_start >= Len(batched.notes)
    /\ batched' = [batched EXCEPT !.pc = "returned"]
    /\ UNCHANGED <<pvars, cvars, svars, uvars, tvars>>

NextBatched ==
    \/ ClassifyNotesBatchedStep
    \/ ClassifyNotesBatchedReturn

\* _classify_notes_batched(notes, projects_info) is entered with a list of
\* at most MaxBatchNotes notes, under a configured batch size.
InitBatched ==
    /\ CacheInit
    /\ PipelineIdle
    /\ stage_call = [op |-> "none"]
    /\ util_call = [op |-> "none"]
    /\ runtime_mode = "PROD"
    /\ TaskIdle
    /\ batched \in {[pc |-> "loop", notes |-> notes, batch_size |-> size,
                      batch_start |-> 0, calls |-> <<>>, returns |-> <<>>,
                      all_classifications |-> <<>>] :
                       notes \in NoteLists, size \in BatchSizes}

SpecBatched == InitBatched /\ [][NextBatched]_vars

\* ------------------------------------------------------------------ claims
\* MetadataProcessor.process returned its list to the caller.
ProcessReturned == pc \in {"log", "direct"} \/ (pc = "done" /\ failed_stage = "summary")
                   \/ (pc = "done" /\ outcome = "returned")

\* C1 (as claimed): every process_note call on a note classified DO_NOW
\* assembles a task with importance 4, urgency 4, impact 100, the first
\* classification confidence score as confidence and no enrichment.
C1_DoNowTaskAssembled ==
    \A i \in 1..Len(note_outcomes) :
        metadata_results[i].classification.action = "DO_NOW" =>
            /\ note_outcomes[i].error = None
            /\ Len(note_outcomes[i].task) = 1
            /\ note_outcomes[i].task[1].importance = 4
            /\ note_outcomes[i].task[1].urgency = 4
            /\ note_outcomes[i].task[1].impact = 100
            /\ note_outcomes[i].task[1].confidence =
                 metadata_results[i].classification.confidence_scores[1]
            /\ note_outcomes[i].task[1].enrichment = None

\* C2 (as claimed): process_note takes the DO_NOW short-circuit exactly when
\* the note's classification action is DO_NOW, and every MetadataResult has
\* is_do_now = (classification.action = DO_NOW).
C2_ShortCircuitIffDoNow ==
    /\ \A i \in 1..Len(note_outcomes) :
          note_outcomes[i].short_circuit <=>
              metadata_results[i].classification.action = "DO_NOW"
    /\ \A i \in 1..Len(metadata_results) :
          metadata_results[i].is_do_now <=>
              metadata_results[i].classification.action = "DO_NOW"

C4_NoteIdMatchesPosition ==
    \A i \in 1..Len(all_classifications) :
        all_classifications[i].note_id = i - 1

\* C5 (as claimed): every NoteClassification of the classification stage has
\* as many confidence scores as projects, both at most top_n_projects.
C5_ParallelLists ==
    \A i \in 1..Len(all_classifications) :
        /\ Len(all_classifications[i].projects) =
              Len(all_classifications[i].confidence_scores)
        /\ Len(all_classifications[i].projects) <= top_n_projects

\* C6 (as claimed): once the classification stage has succeeded, process_notes
\* returns one tuple per input note, in input order, each with exactly one of
\* task and error set.
C6_PerNoteIsolation ==
    (entry = "process_notes" /\ pc = "done"
        /\ failed_stage \notin {"fetch", "classification"}) =>
        /\ outcome = "returned"
        /\ Len(results) = nNotes
        /\ \A i \in 1..Len(results) :
              /\ results[i].note = i - 1
              /\ (Len(results[i].task) = 1) <=> (results[i].error = None)

\* C7 (as claimed): when the classification stage fails, process_notes still
\* returns normally, with a result tuple for every input note.
C7_ClassificationFailureContained ==
    (entry = "process_notes" /\ pc = "done"
        /\ failed_stage = "classification") =>
        /\ outcome = "returned"
        /\ Len(results) = nNotes

\* What the store holds for a facade call: the answer to its own request.
StoreAnswer(call) ==
    IF call.op = "query_pages_filtered"
    THEN StoreQuery(QueryRequest(call.id, call.filter))
    ELSE AllBlocks(call.id, PagesOf(call.id))

\* C8 (as claimed): every facade call made, identical ones counted together,
\* has caused exactly one transport fetch of its own, and no cache entry was
\* ever evicted or replaced.
C8_OneFetchPerDistinctCall ==
    /\ \A c \in FacadeCalls : calls[c] > 0 => fetches[c] = 1
    /\ \A kv \in stored :
          kv[1] \in DOMAIN notion_cache /\ notion_cache[kv[1]] = kv[2]

\* C8 (amended): each cache key is populated by exactly one transport fetch
\* that completed; a call whose key is populated makes no transport call and
\* returns the store's answer to its own request, any other call makes a
\* transport call; an entry once populated is never evicted or replaced.
C8_OneCompletedFetchPerKey ==
    /\ \A k \in CacheKeys :
          /\ ok_fetches[k] <= 1
          /\ k \in DOMAIN notion_cache <=> ok_fetches[k] = 1
    /\ \A kv \in stored :
          kv[1] \in DOMAIN notion_cache /\ notion_cache[kv[1]] = kv[2]
    /\ last.hit =>
          /\ last.transport = 0
          /\ ~last.raised
          /\ last.value = StoreAnswer(last.call)
    /\ (last.call.op # "none" /\ ~last.hit) => last.transport >= 1

\* C8 witness: a call was answered from the cache while a second key, fetched
\* on its own, is cached beside it.
C8_Witness ==
    /\ last.hit
    /\ last.call.op = "query_pages_filtered"
    /\ ~Falsy(last.call.filter)
    /\ ok_fetches[KeyOf(last.call)] = 1
    /\ Cardinality(DOMAIN notion_cache) >= 2

\* The request the i-th iteration of a fetch of page_id has to make.
ChainRequest(page_id, i) ==
    BlocksRequest(page_id,
                  IF i = 1 THEN <<>>
                  ELSE StoreBlocksPage(page_id, i - 1).next_cursor)

\* C9: a fetch of get_inner_page_blocks asks for pages of 100, first with no
\* cursor and then with the previous response's next_cursor, one request per
\* page and none after the response with has_more false, and the call
\* returns all responses' results concatenated in server order.
C9_Pagination ==
    /\ cpc = "paging" =>
          /\ Len(requests) < PagesOf(cur_page_id)
          /\ \A i \in 1..Len(requests) :
                requests[i] = ChainRequest(cur_page_id, i)
          /\ blocks = AllBlocks(cur_page_id, Len(requests))
    /\ (last.call.op = "get_inner_page_blocks" /\ ~last.raised) =>
          last.value = AllBlocks(last.call.id, PagesOf(last.call.id))
    /\ (cpc = "idle" /\ last.call.op = "get_inner_page_blocks"
            /\ ~last.raised /\ ~last.hit) =>
          /\ last.transport = PagesOf(last.call.id)
          /\ Len(requests) = PagesOf(last.call.id)
          /\ \A i \in 1..Len(requests) :
                /\ requests[i] = ChainRequest(last.call.id, i)
                /\ requests[i].page_size = 100

\* C9 witness: a fetch over several pages has returned.
C9_Witness ==
    /\ cpc = "idle"
    /\ last.call.op = "get_inner_page_blocks"
    /\ ~last.raised /\ ~last.hit
    /\ last.transport = MaxPages
    /\ Len(last.value) > Len(StoreBlocksPage(last.call.id, 1).results)

\* C10: when the project query fails, _fetch_project_metadata returns the
\* empty mapping and does not raise; process goes on to classify with an
\* empty title list, and what it returns has one result per note, each with
\* empty project_metadata.
C10_FetchFailureTolerated ==
    fetch_failed =>
        /\ failed_stage # "fetch"
        /\ pc # "fetch" => (all_projects_metadata = {} /\ projects_info = {})
        /\ (pc \notin {"fetch", "classify", "parse"} /\ nNotes > 0) =>
              llm_calls >= 1
        /\ ProcessReturned =>
              /\ Len(metadata_results) = nNotes
              /\ \A i \in 1..Len(metadata_results) :
                    metadata_results[i].project_metadata = {}

\* C10 witness: the query failed and process returned a result per note.
C10_Witness ==
    /\ fetch_failed
    /\ ProcessReturned
    /\ nNotes = MaxNotes
    /\ Len(metadata_results) = nNotes

\* The notes of the direct process_note calls that are not classified DO_NOW.
RankedPath(i) == metadata_results[i].classification.action # "DO_NOW"

\* C11 (as claimed): a note that is not DO_NOW is ranked, and when its
\* ranking has an impact below impact_threshold, process_note yields a task
\* whose enrichment is None, with no enrichment model call; an impact at or
\* above the threshold causes exactly one enrichment model call.
C11_EnrichmentGateInPipeline ==
    \A i \in 1..Len(note_outcomes) :
        RankedPath(i) =>
            /\ note_outcomes[i].judge_calls = 1
            /\ note_outcomes[i].error = None =>
                 /\ Len(note_outcomes[i].task) = 1
                 /\ note_outcomes[i].task[1].impact < impact_threshold =>
                      /\ note_outcomes[i].task[1].enrichment = None
                      /\ note_outcomes[i].enrichment_calls = 0
                 /\ note_outcomes[i].task[1].impact >= impact_threshold =>
                      note_outcomes[i].enrichment_calls = 1

\* C12 (as claimed): a failure inside the brainstorm step or the enrichment
\* step does not end process_note: whatever the executor and the enrichment
\* model answer, the judge is asked once and, when the judge's answer gives
\* a ranking, the note gets its task.
C12_SoftFailuresReachAssembly ==
    \A i \in 1..Len(note_outcomes) :
        RankedPath(i) =>
            /\ note_outcomes[i].executor_calls = 1
            /\ note_outcomes[i].judge_calls = 1
            /\ note_outcomes[i].error \in {None, "ValidationError"}
            /\ note_outcomes[i].error = None =>
                 Len(note_outcomes[i].task) = 1

\* C13 (as claimed): when the judge step fails, RankingProcessor.process
\* does not raise and returns importance 2, urgency 1, impact 20,
\* confidence 0.5 and a title.
C13_JudgeFailureGivesDefault ==
    (stage_call.op = "RankingProcessor.process"
     /\ stage_call.out.judge_failed) =>
        /\ stage_call.out.error = None
        /\ Len(stage_call.out.result) = 1
        /\ stage_call.out.result[1].importance = 2
        /\ stage_call.out.result[1].urgency = 1
        /\ stage_call.out.result[1].impact = 20
        /\ stage_call.out.result[1].confidence = 50
        /\ "title" \in DOMAIN stage_call.out.result[1]

\* C14 (as claimed): a task's ai_use_status is "ambiguous" exactly when its
\* confidence is below confidence_threshold, both for the status
\* determine_ai_use_status derives and for the task of the DO_NOW path.
C14_StatusDerivedFromConfidence ==
    /\ stage_call.op = "TaskManager.determine_ai_use_status" =>
         (stage_call.out = "ambiguous"
            <=> stage_call.confidence < confidence_threshold)
    /\ (stage_call.op = "_create_do_now_task"
        /\ stage_call.out.error = None) =>
         (stage_call.out.task[1].ai_use_status = "ambiguous"
            <=> stage_call.out.task[1].confidence < confidence_threshold)

\* C15 (as claimed): every RankingResult RankingProcessor.process returns
\* has importance and urgency in 1..4, impact in 0..100 and confidence in
\* [0, 1], and carries the scores of the judge's answer unchanged.
C15_ScoresInRange ==
    (stage_call.op = "RankingProcessor.process"
     /\ stage_call.out.error = None) =>
        LET r == stage_call.out.result[1]
        IN /\ r.importance \in 1..4
           /\ r.urgency \in 1..4
           /\ r.impact \in 0..100
           /\ r.confidence \in 0..100
           /\ ~stage_call.out.judge_failed =>
                /\ r.importance = stage_call.judge_answer.data.importance[1]
                /\ r.urgency = stage_call.judge_answer.data.urgency[1]
                /\ r.impact = stage_call.judge_answer.data.impact[1]
                /\ r.confidence = stage_call.judge_answer.data.confidence[1]

\* The strategies in the order the claim gives them.
ClaimedStrategy(k, t) ==
    CASE k = 1 -> JsonLoads(t)
      [] k = 2 -> TryPattern(TaggedMultiline, t)
      [] k = 3 -> TryPattern(UntaggedMultiline, t)
      [] k = 4 -> TryPattern(TaggedSingle, t)
      [] k = 5 -> TryPattern(UntaggedSingle, t)
      [] OTHER -> TrySplit(t)

\* C16: extract_json_from_response returns the document of the first
\* strategy, in the order direct, tagged multi-line fence, untagged
\* multi-line fence, tagged and untagged single-line fence, split fallback,
\* whose parse succeeds, and raises ValueError exactly when none does; it
\* returns the document of a bare document, of a json-tagged fenced one and
\* of a plain fenced one, and raises on a text without a document and on
\* None.
C16_FirstSuccessWins ==
    util_call.op = "extract_json_from_response" =>
        IF util_call.response_content = <<>>
        THEN util_call.out.error = "ValueError"
        ELSE LET t == util_call.response_content[1]
                 ok == {k \in 1..6 : ~ClaimedStrategy(k, t).raised}
             IN /\ (ok = {}) <=> (util_call.out.error = "ValueError")
                /\ ok # {} =>
                     /\ util_call.out.error = None
                     /\ util_call.out.value = ClaimedStrategy(Min(ok), t).value
                /\ \A d \in JsonDocs :
                     t \in {<<d>>,
                            <<Fence, JsonTag, Newline, d, Newline, Fence>>,
                            <<Prose, Fence, Newline, d, Newline, Fence>>,
                            <<Fence, Newline, d, Newline, Fence>>}
                        => util_call.out.value = <<d>>
                /\ (\A i \in 1..Len(t) : t[i] \notin JsonDocs) =>
                     util_call.out.error = "ValueError"

\* A text whose json-tagged fence holds no document while a later plain
\* fence does: the first pattern matches and fails to parse, a later one
\* gives the document.
C16_Witness ==
    /\ util_call.op = "extract_json_from_response"
    /\ util_call.response_content # <<>>
    /\ util_call.out.error = None
    /\ util_call.out.strategy >= 3
    /\ \E k \in 2..5 :
         /\ k < util_call.out.strategy
         /\ Search(patterns[k - 1], util_call.response_content[1]) # <<>>

\* The positions of the messages of a list that are (not) system messages,
\* and the position of its first user message (0 when it has none).
SystemAt(messages) == {i \in 1..Len(messages) : messages[i].role = "system"}
OthersAt(messages) == {i \in 1..Len(messages) : messages[i].role # "system"}
FirstUserAt(messages) ==
    IF \E i \in 1..Len(messages) : messages[i].role = "user"
    THEN Min({i \in 1..Len(messages) : messages[i].role = "user"})
    ELSE 0

\* The n-th smallest element of a set of positions.
Nth(S, n) == CHOOSE x \in S : Cardinality({y \in S : y < x}) = n - 1

\* The text the claim puts in front: the header line, then the system
\* contents one per line in their original order.
RECURSIVE InstructionLines(_, _)
InstructionLines(messages, n) ==
    IF n = 0 THEN <<"Instructions:">>
    ELSE InstructionLines(messages, n - 1) \o <<Newline>>
         \o messages[Nth(SystemAt(messages), n)].content

\* C17: the list transform_messages_for_gemma returns has no system
\* message; its messages are the non-system messages of the input in their
\* order and with their roles and contents, except that the system
\* contents, under the Instructions: header and in their order, stand in
\* front of the content of the first user message, or form a new leading
\* user message when the input has no user message.
C17_SystemFoldedIntoFirstUser ==
    util_call.op = "transform_messages_for_gemma" =>
        LET messages == util_call.messages
            out == util_call.out
            n == Cardinality(OthersAt(messages))
            instructions ==
                InstructionLines(messages, Cardinality(SystemAt(messages)))
            \* where the n-th non-system message of the input stands in out
            shift == IF SystemAt(messages) # {} /\ FirstUserAt(messages) = 0
                     THEN 1 ELSE 0
        IN /\ \A i \in 1..Len(out) : out[i].role # "system"
           /\ Len(out) = n + shift
           /\ \A k \in 1..n :
                LET src == Nth(OthersAt(messages), k)
                IN /\ out[k + shift].role = messages[src].role
                   /\ out[k + shift].content =
                        IF SystemAt(messages) # {}
                           /\ src = FirstUserAt(messages)
                        THEN instructions \o <<Newline, Newline>>
                             \o messages[src].content
                        ELSE messages[src].content
           /\ shift = 1 =>
                out[1] = [role |-> "user", content |-> instructions]

\* Two system messages and a user message.
C17_Witness ==
    /\ util_call.op = "transform_messages_for_gemma"
    /\ Cardinality(SystemAt(util_call.messages)) >= 2
    /\ FirstUserAt(util_call.messages) # 0
    /\ Len(util_call.out) = 1

\* A Gemma model that is not a Flash model, whatever the case of the name.
GemmaNonFlash(model_name) ==
    /\ \E i \in 1..Len(model_name) :
         model_name[i] \in {"gemma", "Gemma", "GEMMA"}
    /\ \A i \in 1..Len(model_name) : model_name[i] \notin {"flash", "Flash"}

\* C18: the request of call_llm_with_json_response for a Gemma non-Flash
\* model carries the adapted messages (no system message) and no
\* response_format; for every other model it carries the messages as given
\* and response_format json_object.
C18_ResponseFormatOrAdaptation ==
    util_call.op = "call_llm_with_json_response" =>
        LET request == util_call.out.request
        IN IF GemmaNonFlash(util_call.model_name)
           THEN /\ "response_format" \notin DOMAIN request
                /\ \A i \in 1..Len(request.messages) :
                     request.messages[i].role # "system"
                /\ Len(request.messages) =
                     Cardinality(OthersAt(util_call.messages))
                     + (IF SystemAt(util_call.messages) # {}
                           /\ FirstUserAt(util_call.messages) = 0
                        THEN 1 ELSE 0)
           ELSE /\ "response_format" \in DOMAIN request
                /\ request.response_format = <<"json_object">>
                /\ request.messages = util_call.messages

\* Both kinds of model are called with a system message in the list: a
\* capitalised Gemma name, and a Gemma name with Flash in it.
C18_Witness ==
    /\ util_call.op = "call_llm_with_json_response"
    /\ SystemAt(util_call.messages) # {}
    /\ \E i \in 1..Len(util_call.model_name) :
         util_call.model_name[i] \in {"Gemma", "GEMMA"}
    /\ "response_format" \notin DOMAIN util_call.out.request

\* The runtime mode is TEST or DEBUG.
IsTestEnvOrDebug(mode) == Upper(mode) \in {"TEST", "DEBUG"}

\* C19 (as claimed): in TEST and in DEBUG mode create_task makes no call to
\* the external store, writes the debug file and returns a debug_task; a
\* page is created only in the other modes.
C19_NoLiveWriteInTestOrDebug ==
    task_ret.kind # "none" =>
        /\ IsTestEnvOrDebug(runtime_mode) =>
             /\ store_calls = <<>>
             /\ task_ret.kind = "returned"
             /\ task_ret.object = "debug_task"
             /\ task_ret.url \in DOMAIN debug_files
        /\ (\E i \in 1..Len(store_calls) : store_calls[i] = "pages.create")
             => ~IsTestEnvOrDebug(runtime_mode)

\* C20 (as claimed): no classification _classify_batch returns lists a
\* project whose confidence score is below project_confidence_threshold.
C20_LowConfidenceProjectsDropped ==
    \A i \in 1..Len(all_classifications) :
        \A j \in 1..Len(all_classifications[i].confidence_scores) :
            all_classifications[i].confidence_scores[j]
                >= project_confidence_threshold

\* The steps of the run taken for the note at global index idx.
NoteSteps(idx) ==
    LET ForNote(e) == e.step # "batch_classified" /\ e.at = idx
        sel == SelectSeq(trace, ForNote)
    IN [k \in 1..Len(sel) |-> sel[k].step]

\* The order the steps of a note that is not DO_NOW are claimed to have.
ClaimedOrder == <<"brainstorm", "judge", "enrichment_gate", "persist">>

\* C21 (as claimed): in a process_notes run whose classification stage
\* succeeded, every batch is classified before any note's step; every note
\* that is not DO_NOW has its steps, in the order brainstorm, judge,
\* enrichment gate, persistence, up to the step that ended it; the notes'
\* steps follow the input order; and a note is persisted at most once, as
\* its last step.
C21_StepsInOrder ==
    (entry = "process_notes" /\ pc = "done"
        /\ failed_stage \notin {"fetch", "classification"}) =>
        /\ \A k, m \in 1..Len(trace) :
              (trace[k].step # "batch_classified"
               /\ trace[m].step = "batch_classified") => m < k
        /\ \A k, m \in 1..Len(trace) :
              (k < m /\ trace[k].step # "batch_classified"
               /\ trace[m].step # "batch_classified")
                 => trace[k].at <= trace[m].at
        /\ \A i \in 1..Len(metadata_results) :
              LET steps == NoteSteps(i - 1)
              IN /\ Cardinality({k \in 1..Len(steps) :
                                   steps[k] = "persist"}) <= 1
                 /\ \A k \in 1..Len(steps) :
                       steps[k] = "persist" => k = Len(steps)
                 /\ RankedPath(i) =>
                       /\ steps # <<>>
                       /\ Len(steps) <= Len(ClaimedOrder)
                       /\ steps = SubSeq(ClaimedOrder, 1, Len(steps))

\* ceil(n / size) for a positive size.
CeilDiv(n, size) == (n + size - 1) \div size

\* The lists of a sequence of lists, one after the other.
RECURSIVE Concat(_)
Concat(lists) ==
    IF lists = <<>> THEN <<>> ELSE Head(lists) \o Concat(Tail(lists))

\* C22: the _classify_batch calls of a _classify_notes_batched call are, in
\* the order made, the consecutive batches of batch_size notes (the last
\* one the remainder), each with the global indices of its notes; a call
\* that returns has made exactly ceil(n / batch_size) of them, every note
\* is in exactly one batch, and the value returned is the concatenation of
\* the batch results in batch order.
C22_ConsecutiveBatches ==
    batched.pc # "idle" =>
        LET n == Len(batched.notes)
            size == batched.batch_size
            calls_made == batched.calls
        IN /\ Len(calls_made) <= CeilDiv(n, size)
           /\ \A k \in 1..Len(calls_made) :
                 /\ Len(calls_made[k].batch) =
                       (IF k * size <= n THEN size ELSE n - (k - 1) * size)
                 /\ Len(calls_made[k].indices) = Len(calls_made[k].batch)
                 /\ \A j \in 1..Len(calls_made[k].batch) :
                       /\ calls_made[k].indices[j] = (k - 1) * size + j - 1
                       /\ calls_made[k].batch[j] =
                             batched.notes[(k - 1) * size + j]
           /\ batched.pc = "returned" =>
                 /\ Len(calls_made) = CeilDiv(n, size)
                 /\ \A i \in 0..(n - 1) :
                       Cardinality(
                         {<<k, j>> \in (1..Len(calls_made)) \X (1..size) :
                             /\ j <= Len(calls_made[k].indices)
                             /\ calls_made[k].indices[j] = i}) = 1
                 /\ Len(batched.returns) = Len(calls_made)
                 /\ batched.all_classifications = Concat(batched.returns)
                 /\ Len(batched.all_classifications) = n

\* C22 witness: a call over several batches, the last one shorter than
\* batch_size, has returned.
C22_Witness ==
    /\ batched.pc = "returned"
    /\ Len(batched.calls) >= 2
    /\ Len(batched.calls[Len(batched.calls)].batch) < batched.batch_size
    /\ batched.batch_size >= 2

\* C23: a project lookup that raises or finds no page leaves create_task
\* without a Project relation and with the six base properties as built from
\* the task, raises nothing of its own, and the page creation is still
\* called; at most one lookup is made per task, for the first project of
\* its list, and none for an empty list.
C23_ProjectLookupBestEffort ==
    task_ret.kind # "none" =>
        LET task == task_ret.task
            properties == task_ret.properties
        IN /\ Len(task_ret.lookups) <= 1
           /\ \A k \in 1..Len(task_ret.lookups) :
                 task_ret.lookups[k] = task.projects[1]
           /\ task.projects = <<>> => task_ret.lookups = <<>>
           /\ Len(store_calls) >= Len(task_ret.lookups)
           /\ (/\ task_ret.query # <<>>
               /\ \/ task_ret.query[1].kind = "raises"
                  \/ task_ret.query[1].ids = <<>>) =>
                 /\ DOMAIN properties =
                       {"Name", "Importance", "Urgency", "Impact Score",
                        "UseAIStatus", "Status"}
                 /\ properties["Name"] = [title |-> task.title]
                 /\ properties["Importance"] =
                       [select |-> <<"str", task.importance>>]
                 /\ properties["Urgency"] =
                       [select |-> <<"str", task.urgency>>]
                 /\ properties["Impact Score"] = [number |-> task.impact]
                 /\ properties["UseAIStatus"] =
                       [select |-> task.ai_use_status]
                 /\ properties["Status"] = [status |-> "Not started"]
                 /\ store_calls = <<"data_sources.query", "pages.create">>
                 /\ task_ret.kind = "raised" => task_ret.error = "APIError"

\* C23 witness: the lookup of the first of two projects raised and the page
\* was created all the same.
C23_Witness ==
    /\ task_ret.kind = "returned"
    /\ task_ret.object = "page"
    /\ Len(task_ret.task.projects) >= 2
    /\ task_ret.query = <<[kind |-> "raises"]>>
    /\ "Project" \notin DOMAIN task_ret.properties

\* The positions of the blocks of a list that have the given type and title.
BlocksAt(children, type, title) ==
    {k \in 1..Len(children) :
        children[k].type = type /\ children[k].title = title}

\* C24: the blocks create_task builds start with the Original Note toggle;
\* there is one AI Enrichment toggle when the task's enrichment is a
\* non-empty text and none otherwise (none for None, none for the empty
\* text); there is one confidence callout when the confidence is not None
\* and none otherwise; and the blocks stand in that order.
C24_ContentBlocks ==
    task_ret.kind = "returned" =>
        LET task == task_ret.task
            children == task_ret.children
            note_at == BlocksAt(children, "toggle", "Original Note")
            enrichment_at == BlocksAt(children, "toggle", "AI Enrichment")
            callout_at == BlocksAt(children, "callout", "Confidence")
        IN /\ note_at = {1}
           /\ children[1].text = task.original_note
           /\ Cardinality(enrichment_at) =
                 (IF task.enrichment \in {None, ""} THEN 0 ELSE 1)
           /\ Cardinality(callout_at) =
                 (IF task.confidence = <<>> THEN 0 ELSE 1)
           /\ \A k \in enrichment_at :
                 k = 2 /\ children[k].text = task.enrichment
           /\ \A k \in callout_at :
                 /\ k = Len(children)
                 /\ children[k].text = task.confidence
           /\ Len(children) =
                 1 + Cardinality(enrichment_at) + Cardinality(callout_at)

\* C24 witness: a task whose enrichment failed (the empty text) and that
\* has a confidence got the note toggle and the callout, nothing between.
C24_Witness ==
    /\ task_ret.kind = "returned"
    /\ task_ret.task.enrichment = ""
    /\ task_ret.task.confidence # <<>>
    /\ Len(task_ret.children) = 2
    /\ task_ret.children[2].type = "callout"

\* The title a line of a note yields: its text without the blanks at its
\* ends and without the markers.
TitleOfLine(line) == RemoveMarkers(StripBlanks(line))

\* The positions of the lines of a note that yield a non-empty title.
TitledLines(note) ==
    {k \in 1..Len(SplitLines(note)) : TitleOfLine(SplitLines(note)[k]) # <<>>}

\* C25 (as claimed): generate_default_title returns the title of the first
\* line of the note that yields a non-empty one, cut to max_length
\* characters with a trailing ellipsis when it is longer, and the
\* placeholder only when no line of the note yields a non-empty title.
C25_FirstNonEmptyLine ==
    util_call.op = "generate_default_title" =>
        /\ (util_call.out = UntitledTask)
              <=> (TitledLines(util_call.note) = {})
        /\ TitledLines(util_call.note) # {} =>
              /\ util_call.out =
                    Truncate(TitleOfLine(SplitLines(util_call.note)[
                                 Min(TitledLines(util_call.note))]),
                             util_call.max_length)
              /\ Len(util_call.out) <= util_call.max_length

\* C26 (as claimed): in TEST mode every create_task call writes its debug
\* file to a path no file has yet: the sanitized title when that name is
\* free, the name with a timestamp suffix otherwise; no file already
\* present is written again.
C26_DebugFileNeverOverwritten ==
    [][(task_calls' # task_calls /\ IsTestEnv(runtime_mode)
        /\ task_ret'.kind = "returned") =>
          /\ task_ret'.url \notin DOMAIN debug_files
          /\ DOMAIN debug_files' = DOMAIN debug_files \cup {task_ret'.url}
          /\ \A path \in DOMAIN debug_files :
                debug_files'[path] = debug_files[path]
          /\ IF <<SafeTitle(task_ret'.task.title)>> \in DOMAIN debug_files
             THEN Len(task_ret'.url) = 2
             ELSE task_ret'.url = <<SafeTitle(task_ret'.task.title)>>]_vars

\* C27 (as claimed): every EnrichmentResult EnrichmentProcessor.process
\* returns is the empty result of a failed run or lists exactly two
\* different lenses, each one of the four of LENSES.
C27_TwoOfFourLenses ==
    (stage_call.op = "EnrichmentProcessor.process"
     /\ stage_call.out.result # <<>>) =>
        LET result == stage_call.out.result[1]
        IN \/ result = EnrichmentFailed
           \/ /\ Len(result.lenses_used) = 2
              /\ result.lenses_used[1] # result.lenses_used[2]
              /\ \A k \in 1..2 : result.lenses_used[k] \in LENSES

\* C28: a facade read whose transport call raises, on the first or on a
\* later page, changes nothing in the cache from its start to the raise, so
\* its key has no entry afterwards; and the next call with the same
\* arguments fetches again, from the first page.
C28_FailedReadLeavesCache ==
    [][/\ (cpc' = "paging" \/ (last' # last /\ last'.raised)) =>
            notion_cache' = notion_cache
       /\ (cpc' = "idle" /\ last'.raised) =>
            KeyOf(last'.call) \notin DOMAIN notion_cache'
       /\ (cpc = "idle" /\ last.raised
           /\ calls'[last.call] # calls[last.call]) =>
            /\ fetches'[last.call] = fetches[last.call] + 1
            /\ IF last.call.op = "query_pages_filtered"
               THEN last'.call = last.call /\ last'.transport = 1
               ELSE /\ cpc' = "paging"
                    /\ cur_page_id' = last.call.id
                    /\ start_cursor' = <<>>
                    /\ blocks' = <<>>
                    /\ requests' = <<>>]_vars

\* C28 witness: a block read that raised on its second page was made again
\* and returned every block, starting from the request without a cursor.
C28_Witness ==
    /\ cpc = "idle"
    /\ last.call.op = "get_inner_page_blocks"
    /\ PagesOf(last.call.id) >= 2
    /\ fetches[last.call] = 2
    /\ ~last.raised /\ ~last.hit
    /\ requests[1].start_cursor = <<>>
    /\ last.value = AllBlocks(last.call.id, PagesOf(last.call.id))

\* C29 (as claimed): after transform_messages_for_gemma has returned, the
\* caller's messages have the contents they had before the call, and a
\* second call on the same list returns what the first returned.
C29_InputNotModified ==
    util_call.op = "transform_messages_for_gemma" =>
        /\ util_call.messages_after = util_call.messages
        /\ util_call.out_again = util_call.out

\* C30 (as claimed): _create_do_now_task assembles a task for every
\* DO_NOW result of the classification stage, one with empty projects and
\* confidence_scores lists included, and raises for none.
C30_DoNowAlwaysGetsTask ==
    stage_call.op = "_create_do_now_task" =>
        /\ stage_call.out.error = None
        /\ Len(stage_call.out.task) = 1
        /\ stage_call.out.task[1].projects =
              stage_call.metadata_result.classification.projects

====
